---- MODULE Spec2Model ----
(***************************************************************************)
(* Contract analysis pipeline of the contract-intelligence platform:       *)
(* ContractService.analyzeContract driving the AIService stage clients     *)
(* over Contract documents held in the document store.                     *)
(*                                                                         *)
(* JavaScript values are encoded as records tagged by their type, so that  *)
(* undefined, null, strings, numbers and arrays stay distinguishable:      *)
(*   U, N, Str(s), Num(n), Arr(seq).                                       *)
(* Every await of the code is one action: the action is the completion of  *)
(* the awaited call followed by the synchronous code up to the next await. *)
(***************************************************************************)
EXTENDS Integers, Sequences, FiniteSets, TLC

VARIABLES
    store,      \* the contracts collection: contract id -> stored document
    aiEnabled,  \* config.ai.enabled, fixed at process start
    emailEnabled, \* config.email.enabled, fixed at process start
    now,        \* wall clock, in seconds
    pc,         \* per analyze run: the await the run is suspended at
    rid,        \* per run: the contractId argument
    doc,        \* per run: the in-memory Contract document and its modified paths
    loc,        \* per run: locals intelligenceResult, ..., similarityResult, error,
                \* the await that threw (thrownAt), whether the catch block was entered,
                \* whether another run on the same id was under way at some time
                \* of this run (overlapped)
    others,     \* per run: otherContracts as returned by Contract.find
    result,     \* per run: the value returned by analyzeContract
    calls,      \* per run: the stage clients invoked so far, in order
    pre,        \* per run: the stored document as found by the first findById
    alert,      \* per run: the sendDeadlineAlert call issued by the run
    parser,     \* the text handed to _parseAIResponse and what became of it
    files,      \* the ids of the contracts whose uploaded file is on disk
    del         \* the deleteContract call: the await it is suspended at, its argument,
                \* whether fs.unlink rejected, the value returned, the calls so far

vars == <<store, aiEnabled, emailEnabled, now, pc, rid, doc, loc, others, result, calls,
          pre, alert, parser, files, del>>

----------------------------------------------------------------------------
(* Bounds *)

\* analyze runs started in one behaviour
MaxRuns == 2

\* contracts in the largest collection
MaxCorpus == 52

\* members of the largest object in a raw text handed to the parser
MaxKeys == 3

\* deleteContract calls made in one behaviour
MaxDeletes == 2

----------------------------------------------------------------------------
(* JavaScript values *)

U == [t |-> "undefined"]
N == [t |-> "null"]
Str(s) == [t |-> "string", v |-> s]
\* a number is the rational v/d with d > 0, kept in lowest terms
Num(n) == [t |-> "number", v |-> n, d |-> 1]
Arr(s) == [t |-> "array", v |-> s]
Bool(b) == [t |-> "boolean", v |-> b]
Obj(o) == [t |-> "object", v |-> o]

IsArray(x) == x.t = "array"

\* JavaScript truthiness, as used by `!x`, `x && y` and `x || y`
Truthy(x) ==
    CASE x.t = "undefined" -> FALSE
      [] x.t = "null" -> FALSE
      [] x.t = "boolean" -> x.v
      [] x.t = "string" -> x.v /= ""
      [] x.t = "chars" -> x.v /= <<>>
      [] x.t = "number" -> x.v /= 0
      [] OTHER -> TRUE

\* a || b
OrElse(a, b) == IF Truthy(a) THEN a ELSE b

----------------------------------------------------------------------------
(* Contract ids, texts, run identifiers *)

Ids == {1, 2}
Runs == {1, 2}

statusEnum == {"pending", "processing", "analyzed", "failed"}
riskLevelEnum == {"low", "medium", "high", "critical"}

Fields == {"status", "textContent", "parties", "keyDates", "financialTerms",
           "clauses", "riskLevel", "risks", "complianceScore", "complianceIssues",
           "similarContracts", "pricingAnalysis", "aiAnalysisDate",
           "aiConfidenceScore", "aiProcessingTime", "lastError", "errorCount"}

\* new Contract({... textContent, status: 'pending'}) with the schema defaults
NewContract(text) ==
    [status |-> "pending",
     textContent |-> text,
     parties |-> <<>>,
     keyDates |-> <<>>,
     financialTerms |-> <<>>,
     clauses |-> <<>>,
     riskLevel |-> U,
     risks |-> <<>>,
     complianceScore |-> U,
     complianceIssues |-> <<>>,
     similarContracts |-> <<>>,
     pricingAnalysis |-> U,
     aiAnalysisDate |-> U,
     aiConfidenceScore |-> U,
     aiProcessingTime |-> U,
     lastError |-> U,
     errorCount |-> 0]

\* no document: what findById yields for an id that is not stored
NoDoc == [NewContract(U) EXCEPT !.status = "none"]
NoLoc == [intelligenceResult |-> U, riskResult |-> U, complianceResult |-> U,
          pricingResult |-> U, similarityResult |-> U, error |-> U, startTime |-> 0,
          thrownAt |-> "none", caught |-> FALSE, overlapped |-> FALSE]
NoResult == [ok |-> "none", error |-> U]
\* no sendDeadlineAlert call
NoAlert == [state |-> "none", deadlines |-> <<>>, status |-> "none"]
\* deleteContract not called; before is the collection its findById read
NoDelete == [pc |-> "idle", id |-> 0, fileError |-> FALSE, result |-> NoResult, n |-> 0,
             before |-> <<>>]
\* _parseAIResponse not called
NoParse == [text |-> <<>>, jsonStr |-> <<>>, stage |-> "idle", out |-> U, cause |-> U]

----------------------------------------------------------------------------
(* Numbers *)

RECURSIVE GCD(_, _)
GCD(a, b) == IF b = 0 THEN a ELSE GCD(b, a % b)

Abs(n) == IF n < 0 THEN -n ELSE n

\* the number n/d, d > 0
Rat(n, d) ==
    LET g == GCD(Abs(n), d)
    IN  [t |-> "number", v |-> n \div g, d |-> d \div g]

\* a + b
Plus(a, b) == Rat(a.v * b.d + b.v * a.d, a.d * b.d)

\* a > b for numbers
Greater(a, b) == a.v * b.d > b.v * a.d

\* a / k, for a number a and an integer k > 0
DivInt(a, k) == Rat(a.v, a.d * k)

RECURSIVE SumSeq(_)
SumSeq(s) == IF s = <<>> THEN Num(0) ELSE Plus(Head(s), SumSeq(Tail(s)))

----------------------------------------------------------------------------
(* Texts: a text is the sequence of its whitespace-separated tokens, a     *)
(* token a sequence of character codes.  Codes 1..9 are lower-case         *)
(* letters, 11..19 their upper-case forms, 0 is a punctuation character.   *)

Txt(words) == [t |-> "text", v |-> words]

\* `!contract.textContent`: absent, null and the empty string are falsy
HasText(x) == x.t = "text" /\ x.v /= <<>>

Punct == 0
toLowerCase(w) == [i \in 1..Len(w) |-> IF w[i] > 10 THEN w[i] - 10 ELSE w[i]]
stripNonWord(w) == SelectSeq(w, LAMBDA c : c /= Punct)

\* String.prototype.includes on one token
IsSubstring(k, w) ==
    \E i \in 0..(Len(w) - Len(k)) : \A j \in 1..Len(k) : w[i + j] = k[j]

\* text.includes(k) for a k without whitespace
includes(words, k) == \E i \in 1..Len(words) : IsSubstring(k, words[i])

Wd(c) == <<c, c + 1, c, c + 1, c>>
wTermination == <<2, 3, 4, 5, 6, 7>>
wPayment == <<8, 9, 8, 9, 1, 1>>
wLiability == <<7, 6, 5, 4, 3, 2>>
wConfidentiality == <<9, 8, 7, 9, 8, 7>>
wIndemnification == <<1, 1, 9, 9, 5, 5>>

\* the feature vocabulary of _findMatchedFeatures
features == <<wTermination, wPayment, wLiability, wConfidentiality, wIndemnification>>

\* twenty-one distinct words of five letters
kw(j) == <<1 + (j % 9), 1 + (j \div 9), 3, 4, 5>>

\* a text of n of these words, each once
KwText(n) == Txt([j \in 1..n |-> kw(j)])

TextA == Txt(<<Wd(1), Wd(1), <<11, 2>>, wPayment, <<12, 13, 2, 3, 2, 0>>, wTermination>>)
TextB == Txt(<<wPayment, <<4, 4>>, Wd(2) \o <<5>>, Wd(5), wTermination>>)

----------------------------------------------------------------------------
(* Lexical similarity scorer *)

RECURSIVE Distinct(_)
\* the keys of the frequency object, in insertion order
Distinct(ws) ==
    IF ws = <<>> THEN <<>>
    ELSE LET rest == Distinct(SelectSeq(Tail(ws), LAMBDA w : w /= Head(ws)))
         IN  <<Head(ws)>> \o rest

Count(ws, w) == Len(SelectSeq(ws, LAMBDA x : x = w))

RECURSIVE InsertByCount(_, _, _)
\* insert w into s, sorted by descending count, after the entries that tie with it
InsertByCount(s, w, ws) ==
    IF s = <<>> THEN <<w>>
    ELSE IF Count(ws, Head(s)) >= Count(ws, w)
         THEN <<Head(s)>> \o InsertByCount(Tail(s), w, ws)
         ELSE <<w>> \o s

RECURSIVE SortByCount(_, _)
\* Array.prototype.sort((a, b) => b[1] - a[1]), which is stable
SortByCount(s, ws) ==
    IF s = <<>> THEN <<>>
    ELSE InsertByCount(SortByCount(SubSeq(s, 1, Len(s) - 1), ws), s[Len(s)], ws)

Take(s, n) == SubSeq(s, 1, IF Len(s) < n THEN Len(s) ELSE n)

MaxKeywords == 20
MinWordLen == 4

extractKeywords(text) ==
    LET cleaned == [i \in 1..Len(text.v) |-> stripNonWord(toLowerCase(text.v[i]))]
        words == SelectSeq(cleaned, LAMBDA w : Len(w) > MinWordLen)
    IN  Take(SortByCount(Distinct(words), words), MaxKeywords)

\* NaN stands for 0/0
NaN == [t |-> "number", v |-> 0, d |-> 0]

calculateSimilarity(keywords1, text2) ==
    IF ~HasText(text2) THEN Num(0)
    ELSE LET text2Lower == [i \in 1..Len(text2.v) |-> toLowerCase(text2.v[i])]
             matches == Len(SelectSeq(keywords1, LAMBDA k : includes(text2Lower, k)))
         IN  IF Len(keywords1) = 0 THEN NaN ELSE Rat(matches, Len(keywords1))

findMatchedFeatures(text1, text2) ==
    SelectSeq(features, LAMBDA f : includes(text1.v, f) /\ includes(text2.v, f))

RECURSIVE InsertBySimilarity(_, _)
InsertBySimilarity(s, e) ==
    IF s = <<>> THEN <<e>>
    ELSE IF ~Greater(e.similarity, Head(s).similarity)
         THEN <<Head(s)>> \o InsertBySimilarity(Tail(s), e)
         ELSE <<e>> \o s

RECURSIVE SortBySimilarity(_)
\* Array.prototype.sort((a, b) => b.similarity - a.similarity), which is stable
SortBySimilarity(s) ==
    IF s = <<>> THEN <<>>
    ELSE InsertBySimilarity(SortBySimilarity(SubSeq(s, 1, Len(s) - 1)), s[Len(s)])

SimilarityThreshold == Rat(3, 10)
SimilarLimit == 5

\* the scorer keeping the candidates that reach the threshold
findSimilarContracts_atLeast(contractText, allContracts) ==
    LET keywords == extractKeywords(contractText)
        scored == [i \in 1..Len(allContracts) |->
                     [contractId |-> allContracts[i].id,
                      similarity |-> calculateSimilarity(keywords, allContracts[i].textContent),
                      matchedFeatures |-> findMatchedFeatures(contractText, allContracts[i].textContent)]]
        kept == SelectSeq(scored, LAMBDA e : ~Greater(SimilarityThreshold, e.similarity))
    IN  [ok |-> Bool(TRUE), error |-> U, data |-> Take(SortBySimilarity(kept), SimilarLimit)]

\* allContracts is a sequence of [id, textContent]
findSimilarContracts(contractText, allContracts) ==
    IF contractText.t /= "text"
    THEN \* _extractKeywords throws, the catch returns the failure
         [ok |-> Bool(FALSE), error |-> Str("TypeError"), data |-> U]
    ELSE
    LET keywords == extractKeywords(contractText)
        scored == [i \in 1..Len(allContracts) |->
                     [contractId |-> allContracts[i].id,
                      similarity |-> calculateSimilarity(keywords, allContracts[i].textContent),
                      matchedFeatures |-> findMatchedFeatures(contractText, allContracts[i].textContent)]]
        kept == SelectSeq(scored, LAMBDA e : Greater(e.similarity, SimilarityThreshold))
    IN  [ok |-> Bool(TRUE), error |-> U, data |-> Take(SortBySimilarity(kept), SimilarLimit)]

----------------------------------------------------------------------------
(* Raw texts of the LLM and the tolerant parser.  A raw text is the        *)
(* sequence of its lexemes: a punctuation character, a run of letters, or  *)
(* a run of digits holding its value.  The three backticks of a code fence *)
(* are the one lexeme P("fence").                                          *)

P(c) == [t |-> "p", v |-> c]
W(s) == [t |-> "w", v |-> s]
D(n) == [t |-> "d", v |-> n]

\* lexeme c is the punctuation character ch
Is(c, ch) == c.t = "p" /\ c.v = ch
IsWs(c) == Is(c, " ") \/ Is(c, "\n")

\* a string value: the lexemes between its quotes
Chars(s) == [t |-> "chars", v |-> s]

RECURSIVE skipWs(_)
skipWs(s) == IF s /= <<>> /\ IsWs(Head(s)) THEN skipWs(Tail(s)) ELSE s

RECURSIVE dropTrailingWs(_)
dropTrailingWs(s) ==
    IF s /= <<>> /\ IsWs(s[Len(s)]) THEN dropTrailingWs(SubSeq(s, 1, Len(s) - 1)) ELSE s

\* String.prototype.trim
trim(s) == dropTrailingWs(skipWs(s))

RECURSIVE removeFences(_, _)
\* text.replace(/```json\n?/g, '') when withJson, text.replace(/```\n?/g, '') otherwise
removeFences(s, withJson) ==
    IF s = <<>> THEN <<>>
    ELSE IF Is(s[1], "fence") /\ (withJson => (Len(s) >= 2 /\ s[2] = W("json")))
         THEN LET r == SubSeq(s, IF withJson THEN 3 ELSE 2, Len(s))
              IN  removeFences(IF r /= <<>> /\ Is(r[1], "\n") THEN Tail(r) ELSE r, withJson)
         ELSE <<Head(s)>> \o removeFences(Tail(s), withJson)

\* text.replace(/```json\n?/g, '').replace(/```\n?/g, '').trim()
cleanText(text) == trim(removeFences(removeFences(text, TRUE), FALSE))

\* cleanText.match(/\{[\s\S]*\}/): from the first { to the last } after it,
\* or the empty sequence when there is no match
jsonMatch(s) ==
    LET opens == {i \in 1..Len(s) : Is(s[i], "{")}
    IN  IF opens = {} THEN <<>>
        ELSE LET a == CHOOSE i \in opens : \A j \in opens : i <= j
                 closes == {i \in (a + 1)..Len(s) : Is(s[i], "}")}
             IN  IF closes = {} THEN <<>>
                 ELSE SubSeq(s, a, CHOOSE i \in closes : \A j \in closes : j <= i)

----------------------------------------------------------------------------
(* JSON.parse over lexemes.  A parse step yields [ok, v, rest]: whether a  *)
(* value was read, the value, and the lexemes after it.  An object is the  *)
(* sequence of its [k, v] members in insertion order.                      *)

JFail == [ok |-> FALSE, v |-> U, rest |-> <<>>]
JOk(v, rest) == [ok |-> TRUE, v |-> v, rest |-> rest]

\* obj[k] = v
put(members, k, v) ==
    IF \E i \in 1..Len(members) : members[i].k = k
    THEN [i \in 1..Len(members) |-> IF members[i].k = k THEN [k |-> k, v |-> v] ELSE members[i]]
    ELSE Append(members, [k |-> k, v |-> v])

RECURSIVE jsonChars(_, _)
\* the rest of a string after its opening quote
jsonChars(s, acc) ==
    IF s = <<>> THEN JFail
    ELSE IF Is(s[1], "\"") THEN JOk(Chars(acc), Tail(s))
    ELSE IF Is(s[1], "\n") THEN JFail
    ELSE IF Is(s[1], "\\")
         THEN IF Len(s) >= 2 /\ (Is(s[2], "\"") \/ Is(s[2], "\\"))
              THEN jsonChars(Tail(Tail(s)), Append(acc, s[2]))
              ELSE JFail
    ELSE jsonChars(Tail(s), Append(acc, s[1]))

RECURSIVE jsonValue(_)
RECURSIVE jsonMembers(_, _)
RECURSIVE jsonElements(_, _)

jsonValue(s0) ==
    LET s == skipWs(s0)
    IN  IF s = <<>> THEN JFail
        ELSE IF Is(s[1], "{")
             THEN LET r == skipWs(Tail(s))
                  IN  IF r /= <<>> /\ Is(r[1], "}") THEN JOk(Obj(<<>>), Tail(r))
                      ELSE jsonMembers(r, <<>>)
        ELSE IF Is(s[1], "[")
             THEN LET r == skipWs(Tail(s))
                  IN  IF r /= <<>> /\ Is(r[1], "]") THEN JOk(Arr(<<>>), Tail(r))
                      ELSE jsonElements(r, <<>>)
        ELSE IF Is(s[1], "\"") THEN jsonChars(Tail(s), <<>>)
        ELSE IF s[1].t = "d" THEN JOk(Num(s[1].v), Tail(s))
        ELSE IF Is(s[1], "-") /\ Len(s) >= 2 /\ s[2].t = "d"
             THEN JOk(Num(0 - s[2].v), Tail(Tail(s)))
        ELSE IF s[1] = W("true") THEN JOk(Bool(TRUE), Tail(s))
        ELSE IF s[1] = W("false") THEN JOk(Bool(FALSE), Tail(s))
        ELSE IF s[1] = W("null") THEN JOk(N, Tail(s))
        ELSE JFail

\* the members of an object from the first key on
jsonMembers(s, acc) ==
    IF s = <<>> \/ ~Is(s[1], "\"") THEN JFail
    ELSE LET key == jsonChars(Tail(s), <<>>)
             a == skipWs(key.rest)
         IN  IF ~key.ok \/ a = <<>> \/ ~Is(a[1], ":") THEN JFail
             ELSE LET val == jsonValue(Tail(a))
                      b == skipWs(val.rest)
                  IN  IF ~val.ok \/ b = <<>> THEN JFail
                      ELSE IF Is(b[1], "}") THEN JOk(Obj(put(acc, key.v.v, val.v)), Tail(b))
                      ELSE IF Is(b[1], ",")
                           THEN jsonMembers(skipWs(Tail(b)), put(acc, key.v.v, val.v))
                      ELSE JFail

\* the elements of an array from the first one on
jsonElements(s, acc) ==
    LET val == jsonValue(s)
        b == skipWs(val.rest)
    IN  IF ~val.ok \/ b = <<>> THEN JFail
        ELSE IF Is(b[1], "]") THEN JOk(Arr(Append(acc, val.v)), Tail(b))
        ELSE IF Is(b[1], ",") THEN jsonElements(Tail(b), Append(acc, val.v))
        ELSE JFail

\* JSON.parse(s): [ok, v], ok false standing for the SyntaxError
JSONparse(s) ==
    LET r == jsonValue(s)
    IN  IF r.ok /\ skipWs(r.rest) = <<>> THEN [ok |-> TRUE, v |-> r.v]
        ELSE [ok |-> FALSE, v |-> U]

----------------------------------------------------------------------------
(* _parseAIResponse: the repairs applied after a first JSON.parse failed,  *)
(* and _validateAndFixParsedData                                           *)

RECURSIVE afterWs(_, _)
\* the index of the first lexeme of s from i on that is not whitespace
afterWs(s, i) == IF i <= Len(s) /\ IsWs(s[i]) THEN afterWs(s, i + 1) ELSE i

\* the index of the first ch in s from i on, 0 when there is none
nextAt(s, i, ch) ==
    LET hits == {j \in i..Len(s) : Is(s[j], ch)}
    IN  IF hits = {} THEN 0 ELSE CHOOSE j \in hits : \A h \in hits : j <= h

RECURSIVE fixQuotedValues(_)
\* jsonStr.replace(/:\s*'([^']*)'/g, ': "$1"')
fixQuotedValues(s) ==
    IF s = <<>> THEN <<>>
    ELSE LET j == afterWs(s, 2)
             k == IF j <= Len(s) /\ Is(s[j], "'") THEN nextAt(s, j + 1, "'") ELSE 0
         IN  IF Is(s[1], ":") /\ k > 0
             THEN <<P(":"), P(" "), P("\"")>> \o SubSeq(s, j + 1, k - 1) \o <<P("\"")>>
                      \o fixQuotedValues(SubSeq(s, k + 1, Len(s)))
             ELSE <<s[1]>> \o fixQuotedValues(Tail(s))

RECURSIVE fixQuotedFirstKey(_)
\* jsonStr.replace(/\{\s*'([^']*)'\s*:/g, '{"$1":')
fixQuotedFirstKey(s) ==
    IF s = <<>> THEN <<>>
    ELSE LET j == afterWs(s, 2)
             k == IF j <= Len(s) /\ Is(s[j], "'") THEN nextAt(s, j + 1, "'") ELSE 0
             c == IF k > 0 THEN afterWs(s, k + 1) ELSE 0
         IN  IF Is(s[1], "{") /\ k > 0 /\ c <= Len(s) /\ Is(s[c], ":")
             THEN <<P("{"), P("\"")>> \o SubSeq(s, j + 1, k - 1) \o <<P("\""), P(":")>>
                      \o fixQuotedFirstKey(SubSeq(s, c + 1, Len(s)))
             ELSE <<s[1]>> \o fixQuotedFirstKey(Tail(s))

RECURSIVE escapeQuotes(_)
\* content.replace(/"/g, '\\"')
escapeQuotes(s) ==
    IF s = <<>> THEN <<>>
    ELSE (IF Is(s[1], "\"") THEN <<P("\\"), P("\"")>> ELSE <<s[1]>>) \o escapeQuotes(Tail(s))

RECURSIVE fixDescriptionQuotes(_)
\* jsonStr.replace(/("description":\s*")([^"]*?)"/g, prefix + escaped content + '"')
fixDescriptionQuotes(s) ==
    IF s = <<>> THEN <<>>
    ELSE LET isPrefix == /\ Len(s) >= 4
                         /\ Is(s[1], "\"") /\ s[2] = W("description")
                         /\ Is(s[3], "\"") /\ Is(s[4], ":")
             j == afterWs(s, 5)
             k == IF isPrefix /\ j <= Len(s) /\ Is(s[j], "\"")
                  THEN nextAt(s, j + 1, "\"") ELSE 0
         IN  IF k > 0
             THEN SubSeq(s, 1, j) \o escapeQuotes(SubSeq(s, j + 1, k - 1)) \o <<P("\"")>>
                      \o fixDescriptionQuotes(SubSeq(s, k + 1, Len(s)))
             ELSE <<s[1]>> \o fixDescriptionQuotes(Tail(s))

\* no repair at all
fixJson_none(jsonStr) == jsonStr

\* Fix 1 and Fix 2 in the order of the code
fixJson(jsonStr) == fixDescriptionQuotes(fixQuotedFirstKey(fixQuotedValues(jsonStr)))

\* the fields _validateAndFixParsedData looks at
FixedFields == {"parties", "keyDates", "financialTerms", "clauses", "risks", "issues",
                "recommendations", "comparableTerms"}

\* obj.replace(/'/g, '"')
replaceQuotes(s) == [i \in 1..Len(s) |-> IF Is(s[i], "'") THEN P("\"") ELSE s[i]]

\* validateAndParse(obj)
validateAndParse(obj) ==
    IF /\ obj.t = "chars"
       /\ obj.v /= <<>>
       /\ \/ Is(obj.v[1], "{") /\ Is(obj.v[Len(obj.v)], "}")
          \/ Is(obj.v[1], "[") /\ Is(obj.v[Len(obj.v)], "]")
    THEN LET r == JSONparse(replaceQuotes(obj.v))
         IN  IF r.ok THEN r.v ELSE obj
    ELSE obj

validateAndFixParsedData(parsed) ==
    Obj([i \in 1..Len(parsed.v) |->
            LET m == parsed.v[i]
            IN  IF (\E f \in FixedFields : m.k = <<W(f)>>) /\ Truthy(m.v)
                THEN [k |-> m.k, v |-> validateAndParse(m.v)]
                ELSE m])

----------------------------------------------------------------------------
(* The LLM capability: what one call of a stage client gets back.          *)
(*   kind "throw"       : client.messages.create rejects with message msg  *)
(*   kind "unparseable" : the text is returned, _parseAIResponse throws    *)
(*   kind "data"        : the text is returned and parses to data          *)

Throw(m) == [kind |-> "throw", msg |-> m, data |-> U]
Unparseable(m) == [kind |-> "unparseable", msg |-> m, data |-> U]
Data(d) == [kind |-> "data", msg |-> "", data |-> d]

ErrCapability == "Connection error."
ErrParse == "Invalid AI response format: No JSON found in response"
ErrUnparseable == "Invalid AI response format: Could not parse AI response as valid JSON"
\* the SyntaxError JSON.parse throws on the text s; its message is a function of s
SyntaxError(s) == [name |-> "SyntaxError", input |-> s]
ErrValidation == "Contract validation failed"
ErrNotFound == "Contract not found"
ErrNoText == "Contract has no text content"
\* the message of the error a rejected storage operation carries
ErrStorage == "connection closed"

partyA == [name |-> "Acme", role |-> "provider"]
partyB == [name |-> "Bolt", role |-> "client"]
\* 30 * 24 * 60 * 60 * 1000 milliseconds, on the clock of this model
ThirtyDays == 30 * 24 * 60 * 60

\* key dates: one second after the first run starts, and thirty days after that
dateA == [dateType |-> "expiration", date |-> 2]
dateB == [dateType |-> "renewal", date |-> 2 + ThirtyDays]
termA == [type |-> "payment", amount |-> 50000]
termB == [type |-> "penalty", amount |-> -100]
clauseA == [clauseType |-> "termination", importance |-> "high"]
riskA == [category |-> "legal", severity |-> "high"]
issueA == [standard |-> "liability", severity |-> "medium"]

IntelResponses ==
    { Throw(ErrCapability),
      Unparseable(ErrParse),
      Data([parties |-> Arr(<<partyA>>), keyDates |-> Arr(<<dateA, dateB>>),
            financialTerms |-> Arr(<<termA, termB>>), clauses |-> Arr(<<clauseA>>),
            confidence |-> Rat(9, 10)]),
      Data([parties |-> Arr(<<partyB>>), keyDates |-> Arr(<<>>),
            financialTerms |-> U, clauses |-> Str("none"),
            confidence |-> U]) }

RiskResponses ==
    { Throw(ErrCapability),
      Data([riskLevel |-> Str("high"), risks |-> Arr(<<riskA>>), confidence |-> Rat(8, 10)]),
      Data([riskLevel |-> U, risks |-> Arr(<<>>), confidence |-> U]),
      Data([riskLevel |-> Str("extreme"), risks |-> Str("none"), confidence |-> Num(0)]) }

ComplianceResponses ==
    { Unparseable(ErrParse),
      Data([complianceScore |-> Num(85), issues |-> Arr(<<issueA>>), confidence |-> Rat(6, 10)]),
      Data([complianceScore |-> Num(150), issues |-> Arr(<<>>), confidence |-> Num(5)]) }

PricingResponses ==
    { Throw(ErrCapability),
      Data([marketPosition |-> Str("favorable"), recommendations |-> Arr(<<"renegotiate">>),
            comparableTerms |-> U, confidence |-> Rat(7, 10)]) }

----------------------------------------------------------------------------
(* Analysis-stage clients *)

fallbackExtraction ==
    [parties |-> Arr(<<>>), keyDates |-> Arr(<<>>), financialTerms |-> Arr(<<>>),
     clauses |-> Arr(<<>>), confidence |-> Num(0)]

fallbackRiskAssessment ==
    [riskLevel |-> Str("medium"), risks |-> Arr(<<>>), confidence |-> Num(0)]

fallbackCompliance ==
    [complianceScore |-> Num(50), issues |-> Arr(<<>>), confidence |-> Num(0)]

fallbackPricingAnalysis ==
    [marketPosition |-> Str("average"), recommendations |-> Arr(<<"manual review">>),
     comparableTerms |-> Arr(<<>>), confidence |-> Num(0)]

\* A stage result as the orchestrator reads it: the properties ok, error, data
\* and fallback of the returned object.  `bare` is the object itself when the
\* client returned its fallback object directly: that object has no ok, error,
\* data or fallback property.
Bare(fb) == [ok |-> U, error |-> U, data |-> U, fallback |-> U, bare |-> fb]
Ok(d) == [ok |-> Bool(TRUE), error |-> U, data |-> d, fallback |-> U, bare |-> U]
NotOk(m, fb) == [ok |-> Bool(FALSE), error |-> Str(m), data |-> U, fallback |-> fb, bare |-> U]

\* a client whose catch block returns the error without its fallback
stageClient_noFallback(enabled, resp, fb) ==
    IF ~enabled THEN Bare(fb)
    ELSE IF resp.kind = "data" THEN Ok(resp.data)
    ELSE NotOk(resp.msg, U)

\* the common shape of the four clients
stageClient(enabled, resp, fb) ==
    IF ~enabled THEN Bare(fb)
    ELSE IF resp.kind = "data" THEN Ok(resp.data)
    ELSE NotOk(resp.msg, fb)

extractContractIntelligence(enabled, resp) == stageClient(enabled, resp, fallbackExtraction)
assessRisks(enabled, resp) == stageClient(enabled, resp, fallbackRiskAssessment)
checkCompliance(enabled, resp) == stageClient(enabled, resp, fallbackCompliance)
analyzePricing(enabled, resp) == stageClient(enabled, resp, fallbackPricingAnalysis)

----------------------------------------------------------------------------
(* Mongoose documents: the in-memory document x is [d, modified], d the    *)
(* field values and modified the paths that save() will write.             *)

Loaded(sd) == [d |-> sd, modified |-> {}]

\* contract.f = v : the path is marked modified when the value changes
Set(x, f, v) ==
    [d |-> [x.d EXCEPT ![f] = v],
     modified |-> IF x.d[f] = v THEN x.modified ELSE x.modified \cup {f}]

\* contract.set(f, v); contract.markModified(f)
SetMarked(x, f, v) ==
    [d |-> [x.d EXCEPT ![f] = v], modified |-> x.modified \cup {f}]

\* schema validation run by save(): riskLevel is an enum, complianceScore a Number
Valid(d) ==
    /\ d.riskLevel.t \in {"undefined", "null"}
          \/ (d.riskLevel.t = "string" /\ d.riskLevel.v \in riskLevelEnum)
    /\ d.complianceScore.t \in {"undefined", "null", "number"}
    /\ d.status \in statusEnum

\* a save whose update is not filtered by the id of the document
Saved_everyDocument(st, id, x) ==
    [i \in DOMAIN st |-> [f \in Fields |-> IF f \in x.modified THEN x.d[f] ELSE st[i][f]]]

\* the collection after contract.save() wrote the modified paths of x
Saved(st, id, x) ==
    [st EXCEPT ![id] = [f \in Fields |-> IF f \in x.modified THEN x.d[f] ELSE @[f]]]

----------------------------------------------------------------------------
(* ContractService: the synchronous pieces of analyzeContract *)

\* _handleAnalysisError writing the initial status instead of failed
handleAnalysisError_toPending(x, errorMessage) ==
    LET x1 == Set(x, "status", "pending")
        x2 == Set(x1, "lastError", errorMessage)
    IN  Set(x2, "errorCount", x2.d.errorCount + 1)

\* _handleAnalysisError without the increment of errorCount
handleAnalysisError_noCount(x, errorMessage) ==
    Set(Set(x, "status", "failed"), "lastError", errorMessage)

\* _handleAnalysisError with `-=` for `+=`
handleAnalysisError_decrement(x, errorMessage) ==
    LET x1 == Set(x, "status", "failed")
        x2 == Set(x1, "lastError", errorMessage)
    IN  Set(x2, "errorCount", x2.d.errorCount - 1)

\* _handleAnalysisError up to its save()
handleAnalysisError(x, errorMessage) ==
    LET x1 == Set(x, "status", "failed")
        x2 == Set(x1, "lastError", errorMessage)
    IN  Set(x2, "errorCount", x2.d.errorCount + 1)

\* the merge appending to what the record holds
mergeArray_append(x, f, value) ==
    IF IsArray(value) /\ Len(value.v) > 0 THEN SetMarked(x, f, x.d[f] \o value.v) ELSE x

\* the merge without the length test
mergeArray_overwriteEmpty(x, f, value) ==
    IF IsArray(value) THEN SetMarked(x, f, value.v) ELSE x

\* one field of the intelligence merge
mergeArray(x, f, value) ==
    IF IsArray(value) /\ Len(value.v) > 0 THEN SetMarked(x, f, value.v) ELSE x

mergeIntelligence(x, intelligence) ==
    LET x1 == mergeArray(x, "parties", intelligence.parties)
        x2 == mergeArray(x1, "keyDates", intelligence.keyDates)
        x3 == mergeArray(x2, "financialTerms", intelligence.financialTerms)
    IN  mergeArray(x3, "clauses", intelligence.clauses)

ArrayOrEmpty(value) == IF IsArray(value) THEN value.v ELSE <<>>

\* the risk merge applying the fallback of a failed stage
mergeRisk_useFallback(x, riskResult) ==
    IF Truthy(riskResult.ok)
    THEN Set(Set(x, "riskLevel", riskResult.data.riskLevel),
             "risks", ArrayOrEmpty(riskResult.data.risks))
    ELSE Set(Set(x, "riskLevel", fallbackRiskAssessment.riskLevel),
             "risks", fallbackRiskAssessment.risks.v)

mergeRisk(x, riskResult) ==
    IF Truthy(riskResult.ok)
    THEN Set(Set(x, "riskLevel", riskResult.data.riskLevel),
             "risks", ArrayOrEmpty(riskResult.data.risks))
    ELSE x

mergeCompliance(x, complianceResult) ==
    IF Truthy(complianceResult.ok)
    THEN Set(Set(x, "complianceScore", complianceResult.data.complianceScore),
             "complianceIssues", ArrayOrEmpty(complianceResult.data.issues))
    ELSE x

mergePricing(x, pricingResult) ==
    IF Truthy(pricingResult.ok)
    THEN Set(x, "pricingAnalysis",
             Obj([marketPosition |-> pricingResult.data.marketPosition,
                  recommendations |-> OrElse(pricingResult.data.recommendations, Arr(<<>>)),
                  comparableTerms |-> OrElse(pricingResult.data.comparableTerms, Arr(<<>>))]))
    ELSE x

\* the confidence a risk or compliance result contributes
resultConfidence(res) ==
    IF Truthy(res.ok) /\ Truthy(res.data.confidence) THEN res.data.confidence ELSE Num(0)

\* the mean taken over all three confidences
calculateOverallConfidence_meanOfAll(intelligence, riskResult, complianceResult) ==
    LET confidences ==
            << IF intelligence.confidence.t = "number" THEN intelligence.confidence ELSE Num(0),
               resultConfidence(riskResult),
               resultConfidence(complianceResult) >>
    IN  DivInt(SumSeq(confidences), Len(confidences))

calculateOverallConfidence(intelligence, riskResult, complianceResult) ==
    LET confidences ==
            << IF intelligence.confidence.t = "number" THEN intelligence.confidence ELSE Num(0),
               resultConfidence(riskResult),
               resultConfidence(complianceResult) >>
        validConfidences == SelectSeq(confidences, LAMBDA c : Greater(c, Num(0)))
    IN  IF Len(validConfidences) = 0 THEN Num(0)
        ELSE DivInt(SumSeq(validConfidences), Len(validConfidences))

\* step 4 run for every contract
hasFinancialTerms_always(d) == TRUE

\* `contract.financialTerms && contract.financialTerms.length > 0`
hasFinancialTerms(d) == Len(d.financialTerms) > 0

\* Finalize without the assignment of aiAnalysisDate
finalize_noDate(x, l, similarityResult, t) ==
    LET x1 == IF Truthy(similarityResult.ok)
              THEN Set(x, "similarContracts", similarityResult.data) ELSE x
        x3 == Set(x1, "aiProcessingTime", Num(t - l.startTime))
        x5 == Set(x3, "status", "analyzed")
        x6 == Set(x5, "errorCount", 0)
    IN  Set(x6, "lastError", N)

\* Finalize without the reset of errorCount and lastError
finalize_keepErrors(x, l, similarityResult, t) ==
    LET x1 == IF Truthy(similarityResult.ok)
              THEN Set(x, "similarContracts", similarityResult.data) ELSE x
        x2 == Set(x1, "aiAnalysisDate", Num(t))
        x3 == Set(x2, "aiProcessingTime", Num(t - l.startTime))
    IN  Set(x3, "status", "analyzed")

\* Finalize assigning similarContracts only when the scorer found some
finalize_keepSimilar(x, l, similarityResult, t) ==
    LET x1 == IF Truthy(similarityResult.ok) /\ Len(similarityResult.data) > 0
              THEN Set(x, "similarContracts", similarityResult.data) ELSE x
        x2 == Set(x1, "aiAnalysisDate", Num(t))
        x3 == Set(x2, "aiProcessingTime", Num(t - l.startTime))
        x4 == Set(x3, "aiConfidenceScore",
                  calculateOverallConfidence(
                      [confidence |-> OrElse(l.intelligenceResult.data.confidence, Num(0))],
                      l.riskResult, l.complianceResult))
        x5 == Set(x4, "status", "analyzed")
        x6 == Set(x5, "errorCount", 0)
    IN  Set(x6, "lastError", N)

\* the Finalize block up to its save()
finalize(x, l, similarityResult, t) ==
    LET x1 == IF Truthy(similarityResult.ok)
              THEN Set(x, "similarContracts", similarityResult.data) ELSE x
        x2 == Set(x1, "aiAnalysisDate", Num(t))
        x3 == Set(x2, "aiProcessingTime", Num(t - l.startTime))
        x4 == Set(x3, "aiConfidenceScore",
                  calculateOverallConfidence(
                      [confidence |-> OrElse(l.intelligenceResult.data.confidence, Num(0))],
                      l.riskResult, l.complianceResult))
        x5 == Set(x4, "status", "analyzed")
        x6 == Set(x5, "errorCount", 0)
    IN  Set(x6, "lastError", N)

RECURSIVE SeqOfIds(_)
\* the ids of a set in ascending order: the order in which find returns them
SeqOfIds(S) ==
    IF S = {} THEN <<>>
    ELSE LET m == CHOOSE a \in S : \A b \in S : a <= b
         IN  <<m>> \o SeqOfIds(S \ {m})

FindLimit == 50

\* Contract.find({_id: {$ne: id}, textContent: {$exists: true, $ne: null}}).limit(50)
findOthers(st, id) ==
    LET hits == {i \in DOMAIN st : i /= id /\ st[i].textContent.t \notin {"undefined", "null"}}
        ordered == SeqOfIds(hits)
    IN  [i \in 1..Len(Take(ordered, FindLimit)) |->
            [id |-> ordered[i], textContent |-> st[ordered[i]].textContent]]

\* _checkDeadlinesAndAlert: the upcoming deadlines of the contract at time t
alertDeadlines(keyDates, t) ==
    SelectSeq(keyDates, LAMBDA kd : kd.date >= t /\ kd.date <= t + ThirtyDays)

\* emailService.sendDeadlineAlert up to its await of transporter.sendMail
sendDeadlineAlert(enabled, d, deadlines) ==
    [state |-> IF enabled THEN "sending" ELSE "skipped",
     deadlines |-> deadlines,
     status |-> d.status]

\* _checkDeadlinesAndAlert sending the alert whatever the deadlines
checkDeadlinesAndAlert_always(enabled, d, t) ==
    sendDeadlineAlert(enabled, d, alertDeadlines(d.keyDates, t))

\* _checkDeadlinesAndAlert(contract), called without await
checkDeadlinesAndAlert(enabled, d, t) ==
    LET upcomingDeadlines == alertDeadlines(d.keyDates, t)
    IN  IF Len(upcomingDeadlines) > 0
        THEN sendDeadlineAlert(enabled, d, upcomingDeadlines)
        ELSE NoAlert

\* contractSchema.virtual('upcomingDeadlines'), read at time t
upcomingDeadlines(d, t) ==
    SelectSeq(d.keyDates, LAMBDA kd : kd.date > t /\ kd.date <= t + ThirtyDays)

RECURSIVE InsertByDate(_, _)
InsertByDate(s, e) ==
    IF s = <<>> THEN <<e>>
    ELSE IF Head(s).date <= e.date
         THEN <<Head(s)>> \o InsertByDate(Tail(s), e)
         ELSE <<e>> \o s

RECURSIVE SortByDate(_)
\* deadlines.sort((a, b) => a.date - b.date)
SortByDate(s) ==
    IF s = <<>> THEN <<>>
    ELSE InsertByDate(SortByDate(SubSeq(s, 1, Len(s) - 1)), s[Len(s)])

RECURSIVE DeadlinesOf(_, _, _)
\* the forEach of _getUpcomingDeadlines over the contracts with the given ids
DeadlinesOf(st, ids, t) ==
    IF ids = <<>> THEN <<>>
    ELSE LET kds == SelectSeq(st[Head(ids)].keyDates,
                              LAMBDA kd : kd.date >= t /\ kd.date <= t + ThirtyDays)
         IN  [i \in 1..Len(kds) |->
                 [contractId |-> Head(ids), dateType |-> kds[i].dateType, date |-> kds[i].date]]
             \o DeadlinesOf(st, Tail(ids), t)

\* _getUpcomingDeadlines at time t; getDashboardStats reports its length
getUpcomingDeadlines(st, t) == SortByDate(DeadlinesOf(st, SeqOfIds(DOMAIN st), t))

\* the catch block handling the document it already holds
catchFindById_stale(st, id, x) == x

\* catch: const contract = await Contract.findById(contractId)
catchFindById(st, id, x) == Loaded(st[id])

\* analyzeContract without the EmptyContent test
noTextContent_never(d) == FALSE

\* `if (!contract.textContent)`: the EmptyContent early return
noTextContent(d) == ~HasText(d.textContent)

----------------------------------------------------------------------------
(* Initial state: the server has started without mail credentials; the     *)
(* collection holds one contract that was uploaded earlier.  The schema    *)
(* does not require textContent, so the stored contract may lack it or     *)
(* hold the empty text.                                                    *)

Init ==
    /\ \E text \in {U, Txt(<<>>), TextA} : store = (1 :> NewContract(text))
    /\ aiEnabled \in BOOLEAN
    /\ now = 0
    /\ pc = [r \in Runs |-> "idle"]
    /\ rid = [r \in Runs |-> 1]
    /\ doc = [r \in Runs |-> Loaded(NoDoc)]
    /\ loc = [r \in Runs |-> NoLoc]
    /\ others = [r \in Runs |-> <<>>]
    /\ result = [r \in Runs |-> NoResult]
    /\ calls = [r \in Runs |-> <<>>]
    /\ pre = [r \in Runs |-> NoDoc]
    /\ emailEnabled = FALSE
    /\ alert = [r \in Runs |-> NoAlert]
    /\ parser = NoParse
    /\ files = DOMAIN store
    /\ del = NoDelete

----------------------------------------------------------------------------
(* createContract: text extraction, then the save of the new document *)

createContract(id, textContent) ==
    /\ id \notin DOMAIN store
    /\ \A i \in Ids : i < id => i \in DOMAIN store
    /\ HasText(textContent)
    /\ store' = (id :> NewContract(textContent)) @@ store
    /\ files' = files \cup {id}
    /\ UNCHANGED <<emailEnabled, parser, del, alert,
                 aiEnabled, now, pc, rid, doc, loc, others, result, calls, pre>>

----------------------------------------------------------------------------
(* analyzeContract(contractId), one action per await *)

\* run q is between its first findById and its return
Active(q) == pc[q] \notin {"idle", "done", "thrown"}

\* the locals of all runs when run r starts on id with the locals l
Started(r, id, l) ==
    [q \in Runs |->
        IF q = r THEN [l EXCEPT !.overlapped = \E p \in Runs \ {r} : Active(p) /\ rid[p] = id]
        ELSE IF Active(q) /\ rid[q] = id THEN [loc[q] EXCEPT !.overlapped = TRUE]
        ELSE loc[q]]

\* await Contract.findById(contractId), the two early returns, and the
\* assignment of status up to the first save()
analyzeLoad(r, id) ==
    /\ pc[r] \in {"idle", "done", "thrown"}
    /\ now < MaxRuns
    /\ now' = now + 1
    /\ rid' = [rid EXCEPT ![r] = id]
    /\ loc' = Started(r, id, NoLoc)
    /\ others' = [others EXCEPT ![r] = <<>>]
    /\ calls' = [calls EXCEPT ![r] = <<>>]
    /\ alert' = [alert EXCEPT ![r] = NoAlert]
    /\ IF id \notin DOMAIN store
       THEN /\ result' = [result EXCEPT ![r] = [ok |-> FALSE, error |-> Str(ErrNotFound)]]
            /\ pre' = [pre EXCEPT ![r] = NoDoc]
            /\ doc' = [doc EXCEPT ![r] = Loaded(NoDoc)]
            /\ pc' = [pc EXCEPT ![r] = "done"]
       ELSE /\ pre' = [pre EXCEPT ![r] = store[id]]
            /\ IF noTextContent(store[id])
               THEN /\ result' = [result EXCEPT ![r] = [ok |-> FALSE, error |-> Str(ErrNoText)]]
                    /\ doc' = [doc EXCEPT ![r] = Loaded(store[id])]
                    /\ pc' = [pc EXCEPT ![r] = "done"]
               ELSE /\ result' = [result EXCEPT ![r] = NoResult]
                    /\ doc' = [doc EXCEPT ![r] = Set(Loaded(store[id]), "status", "processing")]
                    /\ pc' = [pc EXCEPT ![r] = "saveProcessing"]
    /\ UNCHANGED <<emailEnabled, parser, files, del,
                 store, aiEnabled>>

\* await contract.save() of the processing status; the intelligence call is issued
analyzeSaveProcessing(r) ==
    /\ pc[r] = "saveProcessing"
    /\ store' = Saved(store, rid[r], doc[r])
    /\ doc' = [doc EXCEPT ![r].modified = {}]
    /\ loc' = [loc EXCEPT ![r].startTime = now]
    /\ calls' = [calls EXCEPT ![r] = Append(@, "intelligence")]
    /\ pc' = [pc EXCEPT ![r] = "intelligence"]
    /\ UNCHANGED <<emailEnabled, parser, files, del, alert,
                 aiEnabled, now, rid, others, result, pre>>

\* step 1 issuing the risk and the compliance call together
analyzeIntelligence_fanOut(r) ==
    /\ pc[r] = "intelligence"
    /\ \E resp \in IntelResponses :
         LET intelligenceResult == extractContractIntelligence(aiEnabled, resp)
         IN  IF ~Truthy(intelligenceResult.ok)
             THEN /\ doc' = [doc EXCEPT ![r] = handleAnalysisError(@, intelligenceResult.error)]
                  /\ loc' = [loc EXCEPT ![r].intelligenceResult = intelligenceResult,
                                         ![r].error = intelligenceResult.error]
                  /\ calls' = calls
                  /\ pc' = [pc EXCEPT ![r] = "saveError"]
             ELSE /\ doc' = [doc EXCEPT ![r] = mergeIntelligence(@, intelligenceResult.data)]
                  /\ loc' = [loc EXCEPT ![r].intelligenceResult = intelligenceResult]
                  /\ calls' = [calls EXCEPT ![r] = @ \o <<"risk", "compliance">>]
                  /\ pc' = [pc EXCEPT ![r] = "risk"]
    /\ UNCHANGED <<emailEnabled, parser, files, del, alert,
                 store, aiEnabled, now, rid, others, result, pre>>

\* await aiService.extractContractIntelligence(...): step 1 and the merge
analyzeIntelligence(r) ==
    /\ pc[r] = "intelligence"
    /\ \E resp \in IntelResponses :
         LET intelligenceResult == extractContractIntelligence(aiEnabled, resp)
         IN  IF ~Truthy(intelligenceResult.ok)
             THEN /\ doc' = [doc EXCEPT ![r] = handleAnalysisError(@, intelligenceResult.error)]
                  /\ loc' = [loc EXCEPT ![r].intelligenceResult = intelligenceResult,
                                         ![r].error = intelligenceResult.error]
                  /\ calls' = calls
                  /\ pc' = [pc EXCEPT ![r] = "saveError"]
             ELSE /\ doc' = [doc EXCEPT ![r] = mergeIntelligence(@, intelligenceResult.data)]
                  /\ loc' = [loc EXCEPT ![r].intelligenceResult = intelligenceResult]
                  /\ calls' = [calls EXCEPT ![r] = Append(@, "risk")]
                  /\ pc' = [pc EXCEPT ![r] = "risk"]
    /\ UNCHANGED <<emailEnabled, parser, files, del, alert,
                 store, aiEnabled, now, rid, others, result, pre>>

\* await aiService.assessRisks(...): step 2
analyzeRisk(r) ==
    /\ pc[r] = "risk"
    /\ \E resp \in RiskResponses :
         LET riskResult == assessRisks(aiEnabled, resp)
         IN  /\ doc' = [doc EXCEPT ![r] = mergeRisk(@, riskResult)]
             /\ loc' = [loc EXCEPT ![r].riskResult = riskResult]
    /\ calls' = [calls EXCEPT ![r] = Append(@, "compliance")]
    /\ pc' = [pc EXCEPT ![r] = "compliance"]
    /\ UNCHANGED <<emailEnabled, parser, files, del, alert,
                 store, aiEnabled, now, rid, others, result, pre>>

\* await aiService.checkCompliance(...): step 3, and the test that guards step 4
analyzeCompliance(r) ==
    /\ pc[r] = "compliance"
    /\ \E resp \in ComplianceResponses :
         LET complianceResult == checkCompliance(aiEnabled, resp)
         IN  /\ doc' = [doc EXCEPT ![r] = mergeCompliance(@, complianceResult)]
             /\ loc' = [loc EXCEPT ![r].complianceResult = complianceResult]
    /\ IF hasFinancialTerms(doc[r].d)
       THEN /\ calls' = [calls EXCEPT ![r] = Append(@, "pricing")]
            /\ pc' = [pc EXCEPT ![r] = "pricing"]
       ELSE /\ calls' = calls
            /\ pc' = [pc EXCEPT ![r] = "find"]
    /\ UNCHANGED <<emailEnabled, parser, files, del, alert,
                 store, aiEnabled, now, rid, others, result, pre>>

\* await aiService.analyzePricing(...): step 4
analyzePricingStep(r) ==
    /\ pc[r] = "pricing"
    /\ \E resp \in PricingResponses :
         LET pricingResult == analyzePricing(aiEnabled, resp)
         IN  /\ doc' = [doc EXCEPT ![r] = mergePricing(@, pricingResult)]
             /\ loc' = [loc EXCEPT ![r].pricingResult = pricingResult]
    /\ pc' = [pc EXCEPT ![r] = "find"]
    /\ UNCHANGED <<emailEnabled, parser, files, del, alert,
                 store, aiEnabled, now, rid, others, result, calls, pre>>

\* await Contract.find(...).limit(50): the candidates of step 5
analyzeFind(r) ==
    /\ pc[r] = "find"
    /\ others' = [others EXCEPT ![r] = findOthers(store, rid[r])]
    /\ calls' = [calls EXCEPT ![r] = Append(@, "similarity")]
    /\ pc' = [pc EXCEPT ![r] = "similarity"]
    /\ UNCHANGED <<emailEnabled, parser, files, del, alert,
                 store, aiEnabled, now, rid, doc, loc, result, pre>>

\* await aiService.findSimilarContracts(...): step 5 and Finalize up to its save()
analyzeSimilarity(r) ==
    /\ pc[r] = "similarity"
    /\ LET similarityResult == findSimilarContracts(doc[r].d.textContent, others[r])
       IN  /\ doc' = [doc EXCEPT ![r] = finalize(@, loc[r], similarityResult, now)]
           /\ loc' = [loc EXCEPT ![r].similarityResult = similarityResult]
    /\ pc' = [pc EXCEPT ![r] = "saveFinal"]
    /\ UNCHANGED <<emailEnabled, parser, files, del, alert,
                 store, aiEnabled, now, rid, others, result, calls, pre>>

\* await contract.save() of Finalize: the success return, or the rejection
\* that enters the catch block and issues its findById
analyzeSaveFinal(r) ==
    /\ pc[r] = "saveFinal"
    /\ IF Valid(doc[r].d)
       THEN /\ store' = Saved(store, rid[r], doc[r])
            /\ doc' = [doc EXCEPT ![r].modified = {}]
            /\ alert' = [alert EXCEPT ![r] = checkDeadlinesAndAlert(emailEnabled, doc[r].d, now)]
            /\ result' = [result EXCEPT ![r] = [ok |-> TRUE, error |-> U]]
            /\ loc' = loc
            /\ pc' = [pc EXCEPT ![r] = "done"]
       ELSE /\ loc' = [loc EXCEPT ![r].error = Str(ErrValidation),
                                   ![r].thrownAt = "saveFinal", ![r].caught = TRUE]
            /\ pc' = [pc EXCEPT ![r] = "catchFind"]
            /\ UNCHANGED <<store, doc, result, alert>>
    /\ UNCHANGED <<emailEnabled, parser, files, del,
                 aiEnabled, now, rid, others, calls, pre>>

\* catch: await Contract.findById(contractId), then _handleAnalysisError up to its save()
analyzeCatchFind(r) ==
    /\ pc[r] = "catchFind"
    /\ IF rid[r] \in DOMAIN store
       THEN /\ doc' = [doc EXCEPT ![r] =
                         handleAnalysisError(catchFindById(store, rid[r], @), loc[r].error)]
            /\ pc' = [pc EXCEPT ![r] = "saveError"]
            /\ result' = result
       ELSE /\ result' = [result EXCEPT ![r] = [ok |-> FALSE, error |-> loc[r].error]]
            /\ pc' = [pc EXCEPT ![r] = "done"]
            /\ doc' = doc
    /\ UNCHANGED <<emailEnabled, parser, files, del, alert,
                 store, aiEnabled, now, rid, loc, others, calls, pre>>

\* _handleAnalysisError returning its failure without the save()
analyzeSaveError_noSave(r) ==
    /\ pc[r] = "saveError"
    /\ result' = [result EXCEPT ![r] = [ok |-> FALSE, error |-> loc[r].error]]
    /\ pc' = [pc EXCEPT ![r] = "done"]
    /\ UNCHANGED <<emailEnabled, parser, files, del, alert, store, doc,
                 aiEnabled, now, rid, loc, others, calls, pre>>

\* _handleAnalysisError: await contract.save(), then the failure return
analyzeSaveError(r) ==
    /\ pc[r] = "saveError"
    /\ store' = Saved(store, rid[r], doc[r])
    /\ doc' = [doc EXCEPT ![r].modified = {}]
    /\ result' = [result EXCEPT ![r] = [ok |-> FALSE, error |-> loc[r].error]]
    /\ pc' = [pc EXCEPT ![r] = "done"]
    /\ UNCHANGED <<emailEnabled, parser, files, del, alert,
                 aiEnabled, now, rid, loc, others, calls, pre>>

----------------------------------------------------------------------------
(* _parseAIResponse(text), one action per try block *)

\* the fences are removed and the object is matched
parseExtract ==
    /\ parser.stage = "idle"
    /\ parser.text /= <<>>
    /\ LET jsonStr == jsonMatch(cleanText(parser.text))
       IN  IF jsonStr = <<>>
           THEN parser' = [parser EXCEPT !.stage = "done", !.out = Unparseable(ErrParse)]
           ELSE parser' = [parser EXCEPT !.stage = "first", !.jsonStr = jsonStr]
    /\ UNCHANGED <<store, aiEnabled, emailEnabled, now, pc, rid, doc, loc, others, result,
                   calls, pre, alert, files, del>>

\* the first JSON.parse; when it throws, the repairs
parseFirst ==
    /\ parser.stage = "first"
    /\ LET parsed == JSONparse(parser.jsonStr)
       IN  IF parsed.ok
           THEN parser' = [parser EXCEPT !.stage = "done",
                                         !.out = Data(validateAndFixParsedData(parsed.v))]
           ELSE parser' = [parser EXCEPT !.stage = "second", !.jsonStr = fixJson(@)]
    /\ UNCHANGED <<store, aiEnabled, emailEnabled, now, pc, rid, doc, loc, others, result,
                   calls, pre, alert, files, del>>

\* the second JSON.parse; its error message ends the message thrown
parseSecond ==
    /\ parser.stage = "second"
    /\ LET parsed == JSONparse(parser.jsonStr)
       IN  IF parsed.ok
           THEN parser' = [parser EXCEPT !.stage = "done",
                                         !.out = Data(validateAndFixParsedData(parsed.v))]
           ELSE parser' = [parser EXCEPT !.stage = "done", !.out = Unparseable(ErrUnparseable),
                                         !.cause = SyntaxError(parser.jsonStr)]
    /\ UNCHANGED <<store, aiEnabled, emailEnabled, now, pc, rid, doc, loc, others, result,
                   calls, pre, alert, files, del>>

----------------------------------------------------------------------------
(* deleteContract(contractId), one action per await *)

\* the collection without the document id
Without(st, id) == [i \in (DOMAIN st) \ {id} |-> st[i]]

\* the value deleteContract returns after findByIdAndDelete resolved
deleted(fileError) == [ok |-> TRUE, error |-> U, data |-> [deleted |-> TRUE]]

\* await Contract.findById(contractId) and the not-found return
deleteLoad(id) ==
    /\ del.pc \in {"idle", "done"}
    /\ del.n < MaxDeletes
    /\ IF id \notin DOMAIN store
       THEN del' = [NoDelete EXCEPT !.pc = "done", !.id = id, !.n = del.n + 1,
                                    !.before = store,
                                    !.result = [ok |-> FALSE, error |-> Str(ErrNotFound)]]
       ELSE del' = [NoDelete EXCEPT !.pc = "unlink", !.id = id, !.n = del.n + 1,
                                    !.before = store]
    /\ UNCHANGED <<store, aiEnabled, emailEnabled, now, pc, rid, doc, loc, others, result,
                   calls, pre, alert, parser, files>>

\* the findById of deleteContract rejects: the outer catch returns the message
deleteLoadRejected(id) ==
    /\ del.pc \in {"idle", "done"}
    /\ del.n < MaxDeletes
    /\ del' = [NoDelete EXCEPT !.pc = "done", !.id = id, !.n = del.n + 1,
                               !.before = store,
                               !.result = [ok |-> FALSE, error |-> Str(ErrStorage)]]
    /\ UNCHANGED <<store, aiEnabled, emailEnabled, now, pc, rid, doc, loc, others, result,
                   calls, pre, alert, parser, files>>

\* await fs.unlink(contract.filePath) resolves: the file is gone
deleteUnlink ==
    /\ del.pc = "unlink"
    /\ del.id \in files
    /\ files' = files \ {del.id}
    /\ del' = [del EXCEPT !.pc = "remove"]
    /\ UNCHANGED <<store, aiEnabled, emailEnabled, now, pc, rid, doc, loc, others, result,
                   calls, pre, alert, parser>>

\* await fs.unlink(contract.filePath) rejects, the file missing or not removable:
\* the inner catch logs the message and the function goes on
deleteUnlinkRejected ==
    /\ del.pc = "unlink"
    /\ del' = [del EXCEPT !.pc = "remove", !.fileError = TRUE]
    /\ UNCHANGED <<store, aiEnabled, emailEnabled, now, pc, rid, doc, loc, others, result,
                   calls, pre, alert, parser, files>>

\* await Contract.findByIdAndDelete(contractId) and the success return
deleteRemove ==
    /\ del.pc = "remove"
    /\ store' = Without(store, del.id)
    /\ del' = [del EXCEPT !.pc = "done", !.result = deleted(del.fileError)]
    /\ UNCHANGED <<aiEnabled, emailEnabled, now, pc, rid, doc, loc, others, result,
                   calls, pre, alert, parser, files>>

\* findByIdAndDelete rejects: the outer catch returns the message
deleteRemoveRejected ==
    /\ del.pc = "remove"
    /\ del' = [del EXCEPT !.pc = "done", !.result = [ok |-> FALSE, error |-> Str(ErrStorage)]]
    /\ UNCHANGED <<store, aiEnabled, emailEnabled, now, pc, rid, doc, loc, others, result,
                   calls, pre, alert, parser, files>>

----------------------------------------------------------------------------
(* Storage operations that reject.  Inside the try block the rejection is  *)
(* caught and the catch block issues its findById; inside the catch block  *)
(* nothing catches it and analyzeContract itself rejects.                  *)

\* the await of run r rejects inside the try block
Caught(r, at) ==
    /\ loc' = [loc EXCEPT ![r].error = Str(ErrStorage), ![r].thrownAt = at, ![r].caught = TRUE]
    /\ pc' = [pc EXCEPT ![r] = "catchFind"]

\* the await of run r rejects inside the catch block
Escapes(r) ==
    /\ result' = [result EXCEPT ![r] = NoResult]
    /\ pc' = [pc EXCEPT ![r] = "thrown"]

\* the first findById rejects
analyzeLoadRejected(r, id) ==
    /\ pc[r] \in {"idle", "done", "thrown"}
    /\ now < MaxRuns
    /\ now' = now + 1
    /\ rid' = [rid EXCEPT ![r] = id]
    /\ others' = [others EXCEPT ![r] = <<>>]
    /\ calls' = [calls EXCEPT ![r] = <<>>]
    /\ alert' = [alert EXCEPT ![r] = NoAlert]
    /\ result' = [result EXCEPT ![r] = NoResult]
    /\ pre' = [pre EXCEPT ![r] = IF id \in DOMAIN store THEN store[id] ELSE NoDoc]
    /\ doc' = [doc EXCEPT ![r] = Loaded(NoDoc)]
    /\ loc' = Started(r, id, [NoLoc EXCEPT !.error = Str(ErrStorage),
                                           !.thrownAt = "load", !.caught = TRUE])
    /\ pc' = [pc EXCEPT ![r] = "catchFind"]
    /\ UNCHANGED <<store, aiEnabled, emailEnabled, parser, files, del>>

\* the save of the processing status rejects
analyzeSaveProcessingRejected(r) ==
    /\ pc[r] = "saveProcessing"
    /\ Caught(r, "saveProcessing")
    /\ UNCHANGED <<store, aiEnabled, emailEnabled, now, rid, doc, others, result, calls,
                   pre, alert, parser, files, del>>

\* Contract.find of step 5 rejects
analyzeFindRejected(r) ==
    /\ pc[r] = "find"
    /\ Caught(r, "find")
    /\ UNCHANGED <<store, aiEnabled, emailEnabled, now, rid, doc, others, result, calls,
                   pre, alert, parser, files, del>>

\* the save of Finalize is rejected by the store
analyzeSaveFinalRejected(r) ==
    /\ pc[r] = "saveFinal"
    /\ Caught(r, "saveFinal")
    /\ UNCHANGED <<store, aiEnabled, emailEnabled, now, rid, doc, others, result, calls,
                   pre, alert, parser, files, del>>

\* the save of _handleAnalysisError rejects.  Both calls of
\* _handleAnalysisError are `return this._handleAnalysisError(...)` without
\* await, so the rejection settles the promise of analyzeContract and the
\* catch block is not entered, also for the call inside the try block.
analyzeSaveErrorRejected(r) ==
    /\ pc[r] = "saveError"
    /\ Escapes(r)
    /\ loc' = [loc EXCEPT ![r].thrownAt = IF @ = "none" THEN "saveError" ELSE @]
    /\ UNCHANGED <<store, aiEnabled, emailEnabled, now, rid, doc, others, calls,
                   pre, alert, parser, files, del>>

\* the findById of the catch block rejects
analyzeCatchFindRejected(r) ==
    /\ pc[r] = "catchFind"
    /\ Escapes(r)
    /\ UNCHANGED <<store, aiEnabled, emailEnabled, now, rid, doc, loc, others, calls,
                   pre, alert, parser, files, del>>

----------------------------------------------------------------------------
(* The notifier: the transporter.sendMail awaited by sendDeadlineAlert.    *)
(* analyzeContract does not await the alert, so these steps are taken by   *)
(* the mail transport at any later time, or never.                         *)

\* sendMail resolves: sendDeadlineAlert returns { ok: true }
sendMailResolves(r) ==
    /\ alert[r].state = "sending"
    /\ alert' = [alert EXCEPT ![r].state = "sent"]
    /\ UNCHANGED <<store, aiEnabled, emailEnabled, now, pc, rid, doc, loc, others, result,
                   calls, pre, parser, files, del>>

\* sendMail rejects: sendDeadlineAlert logs and returns { ok: false }
sendMailRejects(r) ==
    /\ alert[r].state = "sending"
    /\ alert' = [alert EXCEPT ![r].state = "failed"]
    /\ UNCHANGED <<store, aiEnabled, emailEnabled, now, pc, rid, doc, loc, others, result,
                   calls, pre, parser, files, del>>

----------------------------------------------------------------------------
(* Specification: analyze runs that do not overlap in time *)

\* the runs of this specification: one request at a time
SeqRuns == {1}

Next ==
    \/ \E text \in {TextB} : createContract(2, text)
    \/ \E id \in Ids : \E r \in SeqRuns : analyzeLoad(r, id)
    \/ \E r \in SeqRuns : analyzeSaveProcessing(r)
    \/ \E r \in SeqRuns : analyzeIntelligence(r)
    \/ \E r \in SeqRuns : analyzeRisk(r)
    \/ \E r \in SeqRuns : analyzeCompliance(r)
    \/ \E r \in SeqRuns : analyzePricingStep(r)
    \/ \E r \in SeqRuns : analyzeFind(r)
    \/ \E r \in SeqRuns : analyzeSimilarity(r)
    \/ \E r \in SeqRuns : analyzeSaveFinal(r)
    \/ \E r \in SeqRuns : analyzeCatchFind(r)
    \/ \E r \in SeqRuns : analyzeSaveError(r)

Spec == Init /\ [][Next]_vars

----------------------------------------------------------------------------
(* Specification: sequential runs on the contract uploaded earlier, in an  *)
(* environment whose storage operations may reject and whose mail          *)
(* transport is configured or not                                          *)

InitFaults ==
    /\ \E text \in {U, Txt(<<>>), TextA} : store = (1 :> NewContract(text))
    /\ aiEnabled \in BOOLEAN
    /\ emailEnabled \in BOOLEAN
    /\ now = 0
    /\ pc = [r \in Runs |-> "idle"]
    /\ rid = [r \in Runs |-> 1]
    /\ doc = [r \in Runs |-> Loaded(NoDoc)]
    /\ loc = [r \in Runs |-> NoLoc]
    /\ others = [r \in Runs |-> <<>>]
    /\ result = [r \in Runs |-> NoResult]
    /\ calls = [r \in Runs |-> <<>>]
    /\ pre = [r \in Runs |-> NoDoc]
    /\ alert = [r \in Runs |-> NoAlert]
    /\ parser = NoParse
    /\ files = DOMAIN store
    /\ del = NoDelete

NextFaults ==
    \/ \E id \in Ids : \E r \in SeqRuns : analyzeLoad(r, id)
    \/ \E r \in SeqRuns : analyzeSaveProcessing(r)
    \/ \E r \in SeqRuns : analyzeIntelligence(r)
    \/ \E r \in SeqRuns : analyzeRisk(r)
    \/ \E r \in SeqRuns : analyzeCompliance(r)
    \/ \E r \in SeqRuns : analyzePricingStep(r)
    \/ \E r \in SeqRuns : analyzeFind(r)
    \/ \E r \in SeqRuns : analyzeSimilarity(r)
    \/ \E r \in SeqRuns : analyzeSaveFinal(r)
    \/ \E r \in SeqRuns : analyzeCatchFind(r)
    \/ \E r \in SeqRuns : analyzeSaveError(r)
    \/ \E id \in Ids : \E r \in SeqRuns : analyzeLoadRejected(r, id)
    \/ \E r \in SeqRuns : analyzeSaveProcessingRejected(r)
    \/ \E r \in SeqRuns : analyzeFindRejected(r)
    \/ \E r \in SeqRuns : analyzeSaveFinalRejected(r)
    \/ \E r \in SeqRuns : analyzeSaveErrorRejected(r)
    \/ \E r \in SeqRuns : analyzeCatchFindRejected(r)
    \/ \E r \in SeqRuns : sendMailResolves(r)
    \/ \E r \in SeqRuns : sendMailRejects(r)

SpecFaults == InitFaults /\ [][NextFaults]_vars

----------------------------------------------------------------------------
(* Specification: SpecFaults in which every call a run awaits settles.  A  *)
(* run that was started stands at one await at a time, and the promise it  *)
(* awaits is fulfilled or rejected, which moves the run to its next await, *)
(* to its return or to its rejection.  Every step of SpecFaults that moves *)
(* a run from an await is a step of that run's action for the await, and   *)
(* at every await one of the run's actions is enabled, hence weak fairness *)
(* on the move of a started run.  Nothing is assumed about requests: a new *)
(* analyzeContract call may never come.                                    *)

\* the awaits of analyzeContract and _handleAnalysisError
Awaits == {"saveProcessing", "intelligence", "risk", "compliance", "pricing", "find",
           "similarity", "saveFinal", "catchFind", "saveError"}

\* the call run r awaits settles, fulfilled or rejected: the run moves on
Settles(r) ==
    /\ pc[r] \in Awaits
    /\ \E p \in (Awaits \cup {"done", "thrown"}) \ {pc[r]} : pc' = [pc EXCEPT ![r] = p]

SpecSettles == InitFaults /\ [][NextFaults]_vars /\ \A r \in SeqRuns : WF_pc(Settles(r))

----------------------------------------------------------------------------
(* Specification: one analysis of a contract that was analyzed before, in  *)
(* a collection of up to MaxCorpus contracts.  The analyzed contract holds *)
(* twenty-one distinct words, of which the first twenty are its keywords;  *)
(* every other contract holds a number of these, taken from a repeating    *)
(* pattern, and the contracts beyond the first fifty others hold all.      *)

CandidateMatches == <<7, 6, 13, 7, 10, 0, 10, 12, 6, 7>>

\* the number of keywords of contract 1 that contract i holds
Matches(i) ==
    IF i - 1 > FindLimit THEN MaxKeywords
    ELSE CandidateMatches[((i - 2) % Len(CandidateMatches)) + 1]

\* contract 1 as an earlier analysis left it, similar to a contract since deleted
EarlierAnalyzed ==
    [NewContract(KwText(MaxKeywords + 1)) EXCEPT
        !.status = "analyzed",
        !.similarContracts = << [contractId |-> MaxCorpus + 1, similarity |-> Rat(1, 2),
                                 matchedFeatures |-> <<>>] >>,
        !.aiAnalysisDate = Num(0),
        !.aiConfidenceScore = Num(0),
        !.aiProcessingTime = Num(0),
        !.lastError = N]

Corpus(n) ==
    [i \in 1..n |-> IF i = 1 THEN EarlierAnalyzed ELSE NewContract(KwText(Matches(i)))]

InitCorpus ==
    /\ \E n \in 1..MaxCorpus : store = Corpus(n)
    /\ aiEnabled = TRUE
    /\ emailEnabled = FALSE
    /\ now = MaxRuns - 1
    /\ pc = [r \in Runs |-> "idle"]
    /\ rid = [r \in Runs |-> 1]
    /\ doc = [r \in Runs |-> Loaded(NoDoc)]
    /\ loc = [r \in Runs |-> NoLoc]
    /\ others = [r \in Runs |-> <<>>]
    /\ result = [r \in Runs |-> NoResult]
    /\ calls = [r \in Runs |-> <<>>]
    /\ pre = [r \in Runs |-> NoDoc]
    /\ alert = [r \in Runs |-> NoAlert]
    /\ parser = NoParse
    /\ files = DOMAIN store
    /\ del = NoDelete

NextCorpus ==
    \/ \E r \in SeqRuns : analyzeLoad(r, 1)
    \/ \E r \in SeqRuns : analyzeSaveProcessing(r)
    \/ \E r \in SeqRuns : analyzeIntelligence(r)
    \/ \E r \in SeqRuns : analyzeRisk(r)
    \/ \E r \in SeqRuns : analyzeCompliance(r)
    \/ \E r \in SeqRuns : analyzePricingStep(r)
    \/ \E r \in SeqRuns : analyzeFind(r)
    \/ \E r \in SeqRuns : analyzeSimilarity(r)
    \/ \E r \in SeqRuns : analyzeSaveFinal(r)
    \/ \E r \in SeqRuns : analyzeCatchFind(r)
    \/ \E r \in SeqRuns : analyzeSaveError(r)

SpecCorpus == InitCorpus /\ [][NextCorpus]_vars

----------------------------------------------------------------------------
(* Specification: analyses of one contract requested one after the other,  *)
(* each request served when the one before it has returned.  The requests  *)
(* take the run identifiers in turn, so that the locals of the run before  *)
(* stay readable while the next run is under way.                          *)

\* the other run identifier
Other(r) == IF r = 1 THEN 2 ELSE 1

\* no run is under way and the next request is served as run r
Turn(r) ==
    /\ r = (now % 2) + 1
    /\ \A q \in Runs : pc[q] \in {"idle", "done", "thrown"}

InitRerun ==
    /\ store = (1 :> NewContract(TextA))
    /\ aiEnabled \in BOOLEAN
    /\ emailEnabled = FALSE
    /\ now = 0
    /\ pc = [r \in Runs |-> "idle"]
    /\ rid = [r \in Runs |-> 1]
    /\ doc = [r \in Runs |-> Loaded(NoDoc)]
    /\ loc = [r \in Runs |-> NoLoc]
    /\ others = [r \in Runs |-> <<>>]
    /\ result = [r \in Runs |-> NoResult]
    /\ calls = [r \in Runs |-> <<>>]
    /\ pre = [r \in Runs |-> NoDoc]
    /\ alert = [r \in Runs |-> NoAlert]
    /\ parser = NoParse
    /\ files = DOMAIN store
    /\ del = NoDelete

NextRerun ==
    \/ \E r \in Runs : Turn(r) /\ analyzeLoad(r, 1)
    \/ \E r \in Runs : analyzeSaveProcessing(r)
    \/ \E r \in Runs : analyzeIntelligence(r)
    \/ \E r \in Runs : analyzeRisk(r)
    \/ \E r \in Runs : analyzeCompliance(r)
    \/ \E r \in Runs : analyzePricingStep(r)
    \/ \E r \in Runs : analyzeFind(r)
    \/ \E r \in Runs : analyzeSimilarity(r)
    \/ \E r \in Runs : analyzeSaveFinal(r)
    \/ \E r \in Runs : analyzeCatchFind(r)
    \/ \E r \in Runs : analyzeSaveError(r)

SpecRerun == InitRerun /\ [][NextRerun]_vars

----------------------------------------------------------------------------
(* Specification: analyze requests on one uploaded contract that overlap   *)
(* in time: each request runs while another is under way or after it.      *)

InitOverlap ==
    /\ store = (1 :> NewContract(TextA))
    /\ aiEnabled \in BOOLEAN
    /\ emailEnabled = FALSE
    /\ now = 0
    /\ pc = [r \in Runs |-> "idle"]
    /\ rid = [r \in Runs |-> 1]
    /\ doc = [r \in Runs |-> Loaded(NoDoc)]
    /\ loc = [r \in Runs |-> NoLoc]
    /\ others = [r \in Runs |-> <<>>]
    /\ result = [r \in Runs |-> NoResult]
    /\ calls = [r \in Runs |-> <<>>]
    /\ pre = [r \in Runs |-> NoDoc]
    /\ alert = [r \in Runs |-> NoAlert]
    /\ parser = NoParse
    /\ files = DOMAIN store
    /\ del = NoDelete

NextOverlap ==
    \/ \E r \in Runs : analyzeLoad(r, 1)
    \/ \E r \in Runs : analyzeSaveProcessing(r)
    \/ \E r \in Runs : analyzeIntelligence(r)
    \/ \E r \in Runs : analyzeRisk(r)
    \/ \E r \in Runs : analyzeCompliance(r)
    \/ \E r \in Runs : analyzePricingStep(r)
    \/ \E r \in Runs : analyzeFind(r)
    \/ \E r \in Runs : analyzeSimilarity(r)
    \/ \E r \in Runs : analyzeSaveFinal(r)
    \/ \E r \in Runs : analyzeCatchFind(r)
    \/ \E r \in Runs : analyzeSaveError(r)

SpecOverlap == InitOverlap /\ [][NextOverlap]_vars

----------------------------------------------------------------------------
(* Specification: analyze requests on two uploaded contracts, run r on     *)
(* contract r, in any interleaving.                                        *)

InitDistinct ==
    /\ store = (1 :> NewContract(TextA)) @@ (2 :> NewContract(TextB))
    /\ aiEnabled \in BOOLEAN
    /\ emailEnabled = FALSE
    /\ now = 0
    /\ pc = [r \in Runs |-> "idle"]
    /\ rid = [r \in Runs |-> r]
    /\ doc = [r \in Runs |-> Loaded(NoDoc)]
    /\ loc = [r \in Runs |-> NoLoc]
    /\ others = [r \in Runs |-> <<>>]
    /\ result = [r \in Runs |-> NoResult]
    /\ calls = [r \in Runs |-> <<>>]
    /\ pre = [r \in Runs |-> NoDoc]
    /\ alert = [r \in Runs |-> NoAlert]
    /\ parser = NoParse
    /\ files = DOMAIN store
    /\ del = NoDelete

NextDistinct ==
    \/ \E r \in Runs : analyzeLoad(r, r)
    \/ \E r \in Runs : analyzeSaveProcessing(r)
    \/ \E r \in Runs : analyzeIntelligence(r)
    \/ \E r \in Runs : analyzeRisk(r)
    \/ \E r \in Runs : analyzeCompliance(r)
    \/ \E r \in Runs : analyzePricingStep(r)
    \/ \E r \in Runs : analyzeFind(r)
    \/ \E r \in Runs : analyzeSimilarity(r)
    \/ \E r \in Runs : analyzeSaveFinal(r)
    \/ \E r \in Runs : analyzeCatchFind(r)
    \/ \E r \in Runs : analyzeSaveError(r)

SpecDistinct == InitDistinct /\ [][NextDistinct]_vars

----------------------------------------------------------------------------
(* Specification: deleteContract calls, one after the other, on a          *)
(* collection of up to two uploaded contracts whose files are on disk or   *)
(* have been lost; the ids asked for may name no contract.                 *)

DeleteIds == 1..3

InitDelete ==
    /\ \E n \in 0..2 : store = [i \in 1..n |-> NewContract(IF i = 1 THEN TextA ELSE TextB)]
    /\ files \in SUBSET (DOMAIN store)
    /\ del = NoDelete
    /\ aiEnabled = TRUE
    /\ emailEnabled = FALSE
    /\ now = 0
    /\ pc = [r \in Runs |-> "idle"]
    /\ rid = [r \in Runs |-> 1]
    /\ doc = [r \in Runs |-> Loaded(NoDoc)]
    /\ loc = [r \in Runs |-> NoLoc]
    /\ others = [r \in Runs |-> <<>>]
    /\ result = [r \in Runs |-> NoResult]
    /\ calls = [r \in Runs |-> <<>>]
    /\ pre = [r \in Runs |-> NoDoc]
    /\ alert = [r \in Runs |-> NoAlert]
    /\ parser = NoParse

NextDelete ==
    \/ \E id \in DeleteIds : deleteLoad(id)
    \/ \E id \in DeleteIds : deleteLoadRejected(id)
    \/ deleteUnlink
    \/ deleteUnlinkRejected
    \/ deleteRemove
    \/ deleteRemoveRejected

SpecDelete == InitDelete /\ [][NextDelete]_vars

----------------------------------------------------------------------------
(* Specification: _parseAIResponse applied to one raw text.  The texts are *)
(* objects of up to MaxKeys members, with keys and string values quoted by *)
(* double or by single quotes, alone, inside a json code fence, or inside  *)
(* a sentence; a text without any object; and an object whose risks field  *)
(* is itself the text of an array.                                         *)

Quoted(q, s) == <<P(q)>> \o s \o <<P(q)>>

Key(i) ==
    IF i = 1 THEN <<W("riskLevel")>> ELSE IF i = 2 THEN <<W("risks")>> ELSE <<W("note"), D(i)>>

\* the text of the value of member i, its quotes being q if it is a string
ValueText(i, q) ==
    IF i = 1 THEN Quoted(q, <<W("high")>>)
    ELSE IF i = 2 THEN <<P("["), P("]")>>
    ELSE Quoted(q, <<W("text"), D(i)>>)

RECURSIVE MembersText(_, _, _)
\* members 1..n, separated by a comma and a blank
MembersText(n, kq, vq) ==
    IF n = 0 THEN <<>>
    ELSE (IF n = 1 THEN <<>> ELSE MembersText(n - 1, kq, vq) \o <<P(","), P(" ")>>)
         \o Quoted(kq, Key(n)) \o <<P(":"), P(" ")>> \o ValueText(n, vq)

ObjectText(n, kq, vq) == <<P("{")>> \o MembersText(n, kq, vq) \o <<P("}")>>

Wrappers == {"bare", "fenced", "sentence"}

Wrap(w, s) ==
    CASE w = "bare" -> s
      [] w = "fenced" -> <<P("fence"), W("json"), P("\n")>> \o s \o <<P("\n"), P("fence")>>
      [] w = "sentence" -> <<W("Result"), P(":"), P(" ")>> \o s \o <<P(" "), W("Done"), P(".")>>

NoObjectText == <<W("I"), P(" "), W("cannot"), P(" "), W("analyze"), P(" "), W("this"), P(".")>>

NestedText ==
    <<P("{")>> \o Quoted("\"", <<W("risks")>>) \o <<P(":"), P(" ")>>
        \o Quoted("\"", <<P("[")>> \o Quoted("'", <<W("late")>>) \o <<P("]")>>) \o <<P("}")>>

\* an opening brace that is never closed
OpenOnlyText == <<W("Result"), P(":"), P(" "), P("{"), Quoted("\"", <<W("risks")>>)[1]>>

\* a description holding a quoted word
DescriptionText ==
    <<P("{")>> \o Quoted("\"", <<W("description")>>) \o <<P(":"), P(" ")>>
        \o Quoted("\"", <<W("a"), P(" ")>> \o Quoted("\"", <<W("b")>>) \o <<P(" "), W("c")>>)
        \o <<P("}")>>

\* the object whose one member k holds the text v
MemberText(k, v) ==
    <<P("{")>> \o Quoted("\"", <<W(k)>>) \o <<P(":"), P(" ")>> \o v \o <<P("}")>>

\* the text of an array as the value of a field the parser does not look at
UnlistedFieldText == MemberText("summary", Quoted("\"", <<P("["), D(1), P("]")>>))

\* the text of an array one level down
DeepText ==
    MemberText("risks",
               <<P("[")>> \o MemberText("tags", Quoted("\"", <<P("["), D(1), P("]")>>))
                   \o <<P("]")>>)

\* a bracketed text that is no array
BrokenNestedText == MemberText("risks", Quoted("\"", <<P("["), W("oops"), P("]")>>))

RawTexts ==
    {Wrap(w, ObjectText(n, kq, vq)) :
        w \in Wrappers, n \in 0..MaxKeys, kq \in {"'", "\""}, vq \in {"'", "\""}}
    \cup {NoObjectText, NestedText, OpenOnlyText, DescriptionText,
          UnlistedFieldText, DeepText, BrokenNestedText}

InitParser ==
    /\ \E text \in RawTexts : parser = [NoParse EXCEPT !.text = text]
    /\ files = {1}
    /\ del = NoDelete
    /\ store = (1 :> NewContract(TextA))
    /\ aiEnabled = TRUE
    /\ emailEnabled = FALSE
    /\ now = 0
    /\ pc = [r \in Runs |-> "idle"]
    /\ rid = [r \in Runs |-> 1]
    /\ doc = [r \in Runs |-> Loaded(NoDoc)]
    /\ loc = [r \in Runs |-> NoLoc]
    /\ others = [r \in Runs |-> <<>>]
    /\ result = [r \in Runs |-> NoResult]
    /\ calls = [r \in Runs |-> <<>>]
    /\ pre = [r \in Runs |-> NoDoc]
    /\ alert = [r \in Runs |-> NoAlert]

NextParser == parseExtract \/ parseFirst \/ parseSecond

SpecParser == InitParser /\ [][NextParser]_vars

TypeOK ==
    /\ \A id \in DOMAIN store : store[id].status \in statusEnum
    /\ now \in 0..MaxRuns

----------------------------------------------------------------------------
(* Properties *)

IsSet(x) == x.t \notin {"undefined", "null"}
NonEmptyString(x) == x.t = "string" /\ x.v /= ""

\* run r has returned
Done(r) == pc[r] = "done"
\* analyzeContract of run r has rejected
Thrown(r) == pc[r] = "thrown"
Succeeded(r) == Done(r) /\ result[r].ok = TRUE
\* the document of run r as stored now
Stored(r) == store[rid[r]]
IntelOk(r) == loc[r].intelligenceResult /= U /\ Truthy(loc[r].intelligenceResult.ok)
IntelNotOk(r) == loc[r].intelligenceResult /= U /\ ~Truthy(loc[r].intelligenceResult.ok)
RiskOk(r) == loc[r].riskResult /= U /\ Truthy(loc[r].riskResult.ok)
RiskNotOk(r) == loc[r].riskResult /= U /\ ~Truthy(loc[r].riskResult.ok)
ComplianceOk(r) == loc[r].complianceResult /= U /\ Truthy(loc[r].complianceResult.ok)
ComplianceNotOk(r) == loc[r].complianceResult /= U /\ ~Truthy(loc[r].complianceResult.ok)

\* C1 (as claimed): in every stored state, status analyzed implies that
\* riskLevel, complianceScore and aiAnalysisDate are all set.
C1_AnalyzedImpliesAllSet ==
    \A id \in DOMAIN store :
        store[id].status = "analyzed" =>
            /\ IsSet(store[id].riskLevel)
            /\ IsSet(store[id].complianceScore)
            /\ IsSet(store[id].aiAnalysisDate)

\* C1 (amended): in every stored state, status analyzed implies that
\* aiAnalysisDate is set; and after a successful run riskLevel (complianceScore)
\* is unset only if the risk (compliance) stage failed on a record that had none,
\* or succeeded without reporting one.
C1_AnalyzedImpliesDateSet ==
    /\ \A id \in DOMAIN store :
          store[id].status = "analyzed" => store[id].aiAnalysisDate.t = "number"
    /\ \A r \in Runs :
          Succeeded(r) =>
            /\ ~IsSet(Stored(r).riskLevel) =>
                  \/ RiskNotOk(r) /\ ~IsSet(pre[r].riskLevel)
                  \/ RiskOk(r) /\ ~IsSet(loc[r].riskResult.data.riskLevel)
            /\ ~IsSet(Stored(r).complianceScore) =>
                  \/ ComplianceNotOk(r) /\ ~IsSet(pre[r].complianceScore)
                  \/ ComplianceOk(r) /\ ~IsSet(loc[r].complianceResult.data.complianceScore)

\* C1 witness: a first run whose risk stage failed has stored status analyzed
\* with aiAnalysisDate set and riskLevel unset.
C1_Witness ==
    \E r \in Runs :
        /\ Succeeded(r) /\ RiskNotOk(r) /\ pre[r].status = "pending"
        /\ Stored(r).status = "analyzed"
        /\ IsSet(Stored(r).aiAnalysisDate)
        /\ ~IsSet(Stored(r).riskLevel)

StatusEdges ==
    { <<"pending", "processing">>, <<"failed", "processing">>, <<"analyzed", "processing">>,
      <<"processing", "analyzed">>, <<"processing", "failed">> }

C3_StatusEdges ==
    [][\A id \in DOMAIN store :
         store'[id].status /= store[id].status =>
             <<store[id].status, store'[id].status>> \in StatusEdges]_vars

\* the first findById or the save of the processing status of the run on
\* record id was rejected
RejectedBeforeProcessing(id) ==
    \E r \in Runs : rid[r] = id /\ loc[r].thrownAt \in {"load", "saveProcessing"}

\* C3 (amended): the stored status of a record changes only along the edges
\* pending -> processing, failed -> processing, analyzed -> processing,
\* processing -> analyzed, processing -> failed, except that a run whose first
\* read or whose save of the processing status was rejected writes failed
\* directly over pending or analyzed.
C3_StatusEdgesUnlessRejected ==
    [][\A id \in DOMAIN store :
         store'[id].status /= store[id].status =>
             \/ <<store[id].status, store'[id].status>> \in StatusEdges
             \/ /\ store'[id].status = "failed"
                /\ store[id].status \in {"pending", "analyzed"}
                /\ RejectedBeforeProcessing(id)]_vars

\* C3 witness: a retry has moved a failed record back to processing, after a
\* first run that wrote failed over pending because its save of the
\* processing status was rejected.
C3_Witness ==
    \E r \in Runs :
        /\ pc[r] = "intelligence"
        /\ pre[r].status = "failed"
        /\ pre[r].lastError = Str(ErrStorage)
        /\ pre[r].errorCount = 1
        /\ Stored(r).status = "processing"

C5_EmptyTextLeavesRecord ==
    \A r \in Runs :
        (Done(r) /\ pre[r].status /= "none" /\ ~HasText(pre[r].textContent)) =>
            /\ result[r].ok = FALSE
            /\ Stored(r) = pre[r]
            /\ calls[r] = <<>>

\* C5 witness: a run on a record without text has returned EmptyContent.
C5_Witness ==
    \E r \in Runs :
        /\ Done(r)
        /\ pre[r].status = "pending"
        /\ ~HasText(pre[r].textContent)
        /\ result[r].error = Str(ErrNoText)

IntelFields == {"parties", "keyDates", "financialTerms", "clauses"}
AfterMerge == {"risk", "compliance", "pricing", "find", "similarity", "saveFinal"}

\* the value the merge of one field must leave, given the stage's value
MergedValue(prior, value) ==
    IF IsArray(value) /\ Len(value.v) > 0 THEN value.v ELSE prior

\* C6: when intelligence extraction succeeds, each of parties, keyDates,
\* financialTerms and clauses takes the stage's value if that is a non-empty
\* sequence and keeps its prior value otherwise, in the document of the run
\* and in the record a successful run stores.
C6_MergeOnlyNonEmpty ==
    \A r \in Runs : \A f \in IntelFields :
        /\ (pc[r] \in AfterMerge) =>
              doc[r].d[f] = MergedValue(pre[r][f], loc[r].intelligenceResult.data[f])
        /\ Succeeded(r) =>
              Stored(r)[f] = MergedValue(pre[r][f], loc[r].intelligenceResult.data[f])

\* C6 witness: a re-analysis has replaced parties and kept the prior keyDates,
\* financialTerms and clauses for which the stage returned nothing.
C6_Witness ==
    \E r \in Runs :
        /\ Succeeded(r)
        /\ pre[r].parties = <<partyA>> /\ Stored(r).parties = <<partyB>>
        /\ loc[r].intelligenceResult.data.keyDates = Arr(<<>>)
        /\ Stored(r).keyDates = <<dateA, dateB>>
        /\ loc[r].intelligenceResult.data.financialTerms = U
        /\ Stored(r).financialTerms = <<termA, termB>>
        /\ Stored(r).clauses = <<clauseA>>

AfterRisk == {"compliance", "pricing", "find", "similarity", "saveFinal"}
AfterCompliance == {"pricing", "find", "similarity", "saveFinal"}

\* the risk fields a run must hold once its risk stage has returned
RiskFieldsAsMerged(r, d) ==
    IF RiskOk(r)
    THEN /\ d.riskLevel = loc[r].riskResult.data.riskLevel
         /\ d.risks = ArrayOrEmpty(loc[r].riskResult.data.risks)
    ELSE /\ d.riskLevel = pre[r].riskLevel
         /\ d.risks = pre[r].risks

\* the compliance fields a run must hold once its compliance stage has returned
ComplianceFieldsAsMerged(r, d) ==
    IF ComplianceOk(r)
    THEN /\ d.complianceScore = loc[r].complianceResult.data.complianceScore
         /\ d.complianceIssues = ArrayOrEmpty(loc[r].complianceResult.data.issues)
    ELSE /\ d.complianceScore = pre[r].complianceScore
         /\ d.complianceIssues = pre[r].complianceIssues

\* C7: a failed risk (compliance) stage leaves riskLevel and risks
\* (complianceScore and complianceIssues) as they were before the run and keeps
\* the merged intelligence arrays; a successful one sets them, an empty sequence
\* included; either way the run goes on to the remaining stages, and what a
\* successful run stores is the same.
C7_StageFailureKeepsPrior ==
    \A r \in Runs :
        /\ (pc[r] \in AfterRisk) =>
              /\ RiskFieldsAsMerged(r, doc[r].d)
              /\ \A f \in IntelFields :
                    doc[r].d[f] = MergedValue(pre[r][f], loc[r].intelligenceResult.data[f])
        /\ (pc[r] \in AfterCompliance) => ComplianceFieldsAsMerged(r, doc[r].d)
        /\ (Done(r) /\ IntelOk(r)) =>
              calls[r] \in { <<"intelligence", "risk", "compliance", "similarity">>,
                             <<"intelligence", "risk", "compliance", "pricing", "similarity">> }
        /\ Succeeded(r) =>
              /\ RiskFieldsAsMerged(r, Stored(r))
              /\ ComplianceFieldsAsMerged(r, Stored(r))
              /\ Stored(r).status = "analyzed"

\* C7 witness: a re-analysis whose risk stage failed has finished analyzed with
\* the prior risk data, the newly merged parties, and the empty issue list of
\* its successful compliance stage.
C7_Witness ==
    \E r \in Runs :
        /\ Succeeded(r) /\ RiskNotOk(r) /\ ComplianceOk(r)
        /\ pre[r].riskLevel = Str("high") /\ Stored(r).riskLevel = Str("high")
        /\ Stored(r).risks = <<riskA>>
        /\ pre[r].parties = <<partyA>> /\ Stored(r).parties = <<partyB>>
        /\ pre[r].complianceIssues = <<issueA>> /\ Stored(r).complianceIssues = <<>>
        /\ Stored(r).status = "analyzed"

\* C8: every run that returns success leaves the stored record with status
\* analyzed, aiAnalysisDate set to the time of the run, lastError null and
\* errorCount 0.
C8_SuccessClearsErrors ==
    \A r \in Runs :
        Succeeded(r) =>
            /\ Stored(r).status = "analyzed"
            /\ Stored(r).aiAnalysisDate = Num(now)
            /\ Stored(r).lastError = N
            /\ Stored(r).errorCount = 0

\* C8 witness: a run has succeeded on a record that carried an error message
\* and a positive errorCount.
C8_Witness ==
    \E r \in Runs :
        /\ Succeeded(r)
        /\ NonEmptyString(pre[r].lastError)
        /\ pre[r].errorCount >= 1
        /\ Stored(r).lastError = N

\* C9 (as claimed): the stored errorCount after a run is greater than or equal
\* to its value before the run.
C9_ErrorCountNeverDecreases ==
    \A r \in Runs :
        (Done(r) /\ pre[r].status /= "none") => Stored(r).errorCount >= pre[r].errorCount

\* C9 (amended): the stored errorCount after a failed run is greater than or
\* equal to its value before the run, and after a successful run it is 0.
C9_ErrorCountResetOnlyBySuccess ==
    \A r \in Runs :
        (Done(r) /\ pre[r].status /= "none") =>
            IF result[r].ok = TRUE
            THEN Stored(r).errorCount = 0
            ELSE Stored(r).errorCount >= pre[r].errorCount

\* C9 witness: a successful retry of a failed record has taken errorCount from 1 to 0.
C9_Witness ==
    \E r \in Runs :
        /\ Succeeded(r)
        /\ pre[r].status = "failed"
        /\ pre[r].errorCount = 1
        /\ Stored(r).errorCount = 0

AfterProcessing == {"find", "saveFinal", "saveError"}

\* C11 (as claimed): a run in which an await threw after the record was
\* persisted as processing ends with status failed, the exception's message as
\* lastError, errorCount one more than the stored one, and a failure outcome.
C11_ExceptionAlwaysRecorded ==
    \A r \in Runs :
        ((Done(r) \/ Thrown(r)) /\ loc[r].thrownAt \in AfterProcessing) =>
            /\ Stored(r).status = "failed"
            /\ Stored(r).lastError = loc[r].error
            /\ Stored(r).errorCount = pre[r].errorCount + 1
            /\ Done(r) /\ result[r].ok = FALSE

\* C11 (amended): such a run ends with the stored record changed in status,
\* lastError and errorCount only: failed, the message of the exception, the
\* stored errorCount plus one, and it returns that failure; unless the
\* findById of the catch block or a save of _handleAnalysisError is rejected,
\* in which case analyzeContract rejects and the record stays as persisted,
\* in processing.
C11_ExceptionRecordedUnlessCatchRejected ==
    \A r \in Runs :
        ((Done(r) \/ Thrown(r)) /\ loc[r].thrownAt \in AfterProcessing) =>
            IF Thrown(r)
            THEN Stored(r) = [pre[r] EXCEPT !.status = "processing"]
            ELSE /\ Stored(r) = [pre[r] EXCEPT !.status = "failed",
                                               !.lastError = loc[r].error,
                                               !.errorCount = pre[r].errorCount + 1]
                 /\ NonEmptyString(loc[r].error)
                 /\ result[r] = [ok |-> FALSE, error |-> loc[r].error]

\* C11 witness: the final save of a retry was rejected by validation after the
\* run had merged new parties and reset errorCount in memory; the record is
\* stored failed with errorCount 2 and its prior parties.
C11_Witness ==
    \E r \in Runs :
        /\ Done(r) /\ loc[r].thrownAt = "saveFinal"
        /\ loc[r].error = Str(ErrValidation)
        /\ doc[r].d.errorCount = 2 /\ pre[r].errorCount = 1
        /\ Stored(r).status = "failed"
        /\ Stored(r).lastError = Str(ErrValidation)
        /\ Stored(r).errorCount = 2
        /\ result[r].ok = FALSE

\* C12 (as claimed): every stored complianceScore is a number within 0..100 and
\* every stored aiConfidenceScore a number within [0, 1].
C12_ScoresWithinBounds ==
    \A id \in DOMAIN store :
        /\ IsSet(store[id].complianceScore) =>
              /\ store[id].complianceScore.t = "number"
              /\ store[id].complianceScore.v >= 0
              /\ store[id].complianceScore.v <= 100 * store[id].complianceScore.d
        /\ IsSet(store[id].aiConfidenceScore) =>
              /\ store[id].aiConfidenceScore.t = "number"
              /\ store[id].aiConfidenceScore.v >= 0
              /\ store[id].aiConfidenceScore.v <= store[id].aiConfidenceScore.d

\* C13 (as claimed): no stored financial term has a negative or non-numeric
\* amount.
C13_NoNegativeAmount ==
    \A id \in DOMAIN store :
        \A i \in 1..Len(store[id].financialTerms) :
            /\ store[id].financialTerms[i].amount \in Int
            /\ store[id].financialTerms[i].amount >= 0

\* the confidence a stage of run r reported, 0 when the stage failed or
\* reported none
ReportedConfidence(res) ==
    IF res /= U /\ Truthy(res.ok) /\ res.data.confidence.t = "number"
    THEN res.data.confidence ELSE Num(0)

PricingInvoked(r) == \E i \in 1..Len(calls[r]) : calls[r][i] = "pricing"
PricingOk(r) == loc[r].pricingResult /= U /\ Truthy(loc[r].pricingResult.ok)
AfterPricing == {"find", "similarity", "saveFinal"}

\* C15: a run invokes the pricing stage exactly when the financialTerms of its
\* document are non-empty after the compliance stage; when pricing is not
\* invoked or fails, pricingAnalysis stays what it was before the run, in the
\* document and in what a successful run stores; and a run that got past
\* intelligence fails only by a rejected final save.
C15_PricingOnlyWithTerms ==
    \A r \in Runs :
        /\ (pc[r] = "pricing") => Len(doc[r].d.financialTerms) > 0
        /\ (pc[r] \in AfterPricing) =>
              /\ PricingInvoked(r) <=> Len(doc[r].d.financialTerms) > 0
              /\ ~PricingOk(r) => doc[r].d.pricingAnalysis = pre[r].pricingAnalysis
        /\ Succeeded(r) =>
              /\ PricingInvoked(r) <=> Len(Stored(r).financialTerms) > 0
              /\ ~PricingOk(r) => Stored(r).pricingAnalysis = pre[r].pricingAnalysis
        /\ (Done(r) /\ IntelOk(r) /\ ~Succeeded(r)) =>
              /\ loc[r].thrownAt = "saveFinal"
              /\ result[r].error = Str(ErrValidation)

\* C15 witness: a re-analysis whose pricing stage failed has succeeded and
\* kept the pricingAnalysis of the earlier run.
C15_Witness ==
    \E r \in Runs :
        /\ Succeeded(r)
        /\ PricingInvoked(r) /\ ~PricingOk(r)
        /\ pre[r].pricingAnalysis.t = "object"
        /\ Stored(r).pricingAnalysis = pre[r].pricingAnalysis
        /\ Stored(r).status = "analyzed" /\ Stored(r).errorCount = 0

\* the contract ids of a sequence of similarContracts entries or candidates
EntryIds(entries) == {entries[p].contractId : p \in 1..Len(entries)}
CandidateIds(candidates) == {candidates[j].id : j \in 1..Len(candidates)}

\* C16: after a successful run similarContracts is the result the scorer
\* returned in that run, empty or not; the scorer was given at most 50
\* contracts, all stored, none of them the analyzed one; and every stored
\* entry names one of those, never the analyzed contract itself.
C16_SimilarContractsReplaced ==
    \A r \in Runs :
        Succeeded(r) =>
            /\ loc[r].similarityResult.ok = Bool(TRUE)
            /\ Stored(r).similarContracts = loc[r].similarityResult.data
            /\ Len(others[r]) <= 50
            /\ CandidateIds(others[r]) \subseteq DOMAIN store \ {rid[r]}
            /\ Len(others[r]) < 50 => CandidateIds(others[r]) = DOMAIN store \ {rid[r]}
            /\ EntryIds(Stored(r).similarContracts) \subseteq CandidateIds(others[r])
            /\ rid[r] \notin EntryIds(Stored(r).similarContracts)

\* C16 witness: a re-analysis in a collection without any other contract has
\* replaced the similar contract of the earlier analysis by the empty result.
C16_Witness ==
    \E r \in Runs :
        /\ Succeeded(r)
        /\ Len(pre[r].similarContracts) = 1
        /\ others[r] = <<>>
        /\ loc[r].similarityResult.data = <<>>
        /\ Stored(r).similarContracts = <<>>

\* C19: findSimilarContracts, for a target of twenty keywords and candidates
\* holding known numbers of them, returns entries for candidates that hold
\* more than 0.3 of the keywords (6 of 20 is not enough, 7 of 20 is), each
\* with its fraction as similarity, in descending order of similarity and in
\* input order among equals, the best five at most, and all of them when the
\* candidates that qualify are fewer.
C19_ScorerKeepsBestAboveThreshold ==
    \A r \in Runs :
        (loc[r].similarityResult /= U) =>
            LET input == others[r]
                out == loc[r].similarityResult.data
                Pos(id) == CHOOSE j \in 1..Len(input) : input[j].id = id
                Qualifying == {j \in 1..Len(input) : Matches(input[j].id) * 10 > 3 * 20}
                Kept == {Pos(out[p].contractId) : p \in 1..Len(out)}
                Before(i, j) == \/ Matches(input[i].id) > Matches(input[j].id)
                                \/ Matches(input[i].id) = Matches(input[j].id) /\ i < j
            IN  /\ loc[r].similarityResult.ok = Bool(TRUE)
                /\ EntryIds(out) \subseteq CandidateIds(input)
                /\ Kept \subseteq Qualifying
                /\ \A p \in 1..Len(out) :
                      /\ out[p].similarity.v * 20 = Matches(out[p].contractId) * out[p].similarity.d
                      /\ out[p].similarity.d > 0
                /\ \A p, q \in 1..Len(out) :
                      p < q => Before(Pos(out[p].contractId), Pos(out[q].contractId))
                /\ Len(out) = IF Cardinality(Qualifying) < 5 THEN Cardinality(Qualifying) ELSE 5
                /\ \A j \in Qualifying \ Kept : \A i \in Kept : Before(i, j)

\* C19 witness: ten candidates holding 7, 6, 13, 7, 10, 0, 10, 12, 6 and 7 of the
\* twenty keywords were scored: the result names the third, eighth, fifth,
\* seventh and first of them, leaving out two that hold 7 and two that hold 6.
C19_Witness ==
    \E r \in Runs :
        /\ loc[r].similarityResult /= U
        /\ Len(others[r]) = 10
        /\ [p \in 1..Len(loc[r].similarityResult.data) |->
               loc[r].similarityResult.data[p].contractId] = <<4, 9, 6, 8, 2>>
        /\ loc[r].similarityResult.data[5].similarity = Rat(7, 20)
        /\ Matches(3) = 6 /\ Matches(5) = 7

\* the key dates of a stored record that lie within the thirty days from t on
UpcomingAt(keyDates, t) ==
    SelectSeq(keyDates, LAMBDA kd : t <= kd.date /\ kd.date <= t + 30 * 24 * 60 * 60)

\* C17: sendDeadlineAlert is called only in the step in which a run returns
\* success, with the record stored as analyzed, and exactly when the stored
\* key dates that are upcoming are not empty, with these as its deadlines;
\* and the step in which the mail transport succeeds or fails, if it ever
\* comes, changes neither the stored records nor any run's outcome.
C17_NotifierAfterPersist ==
    [][\A r \in Runs :
         /\ (alert'[r].state /= "none" /\ alert[r].state = "none") =>
               /\ pc[r] = "saveFinal" /\ pc'[r] = "done"
               /\ result'[r].ok = TRUE
               /\ store'[rid[r]].status = "analyzed"
               /\ alert'[r].deadlines /= <<>>
               /\ alert'[r].deadlines = UpcomingAt(store'[rid[r]].keyDates, now)
         /\ (pc[r] = "saveFinal" /\ pc'[r] = "done") =>
               (alert'[r].state /= "none" <=> UpcomingAt(store'[rid[r]].keyDates, now) /= <<>>)
         /\ (alert[r].state = "sending" /\ alert'[r].state \in {"sent", "failed"}) =>
               /\ pc[r] = "done" /\ result[r].ok = TRUE
               /\ store' = store /\ result' = result /\ pc' = pc
       ]_vars

\* C17 witness: the mail transport has failed after a run returned success
\* with one upcoming deadline out of two key dates; the record is analyzed.
C17_Witness ==
    \E r \in Runs :
        /\ alert[r].state = "failed"
        /\ alert[r].deadlines = <<dateA>>
        /\ Succeeded(r)
        /\ Stored(r).keyDates = <<dateA, dateB>>
        /\ Stored(r).status = "analyzed"

\* C18 (as claimed): the key dates with now <= date <= now + 30 days are what
\* the alert filter selects, what the upcomingDeadlines virtual of a record
\* returns, and what the dashboard counts over all records.
C18_SameWindowEverywhere ==
    /\ \A id \in DOMAIN store :
          /\ alertDeadlines(store[id].keyDates, now) = UpcomingAt(store[id].keyDates, now)
          /\ upcomingDeadlines(store[id], now) = UpcomingAt(store[id].keyDates, now)
    /\ \A id \in DOMAIN store :
          Len(SelectSeq(getUpcomingDeadlines(store, now), LAMBDA e : e.contractId = id))
              = Len(UpcomingAt(store[id].keyDates, now))

\* the value of member i, and the record of members 1..n
ExpectedValue(i) ==
    IF i = 1 THEN Chars(<<W("high")>>)
    ELSE IF i = 2 THEN Arr(<<>>)
    ELSE Chars(<<W("text"), D(i)>>)

ExpectedRecord(n) == Obj([i \in 1..n |-> [k |-> Key(i), v |-> ExpectedValue(i)]])

\* C20 (as claimed): a text whose object has n >= 1 members and single quotes
\* around every key and every string value parses to the record of these
\* members, which is what its double-quoted form parses to.
C20_SingleQuotedParses ==
    \A w \in Wrappers : \A n \in 1..MaxKeys :
        (parser.stage = "done" /\ parser.text = Wrap(w, ObjectText(n, "'", "'"))) =>
            parser.out = Data(ExpectedRecord(n))

\* run r started after the last run of the other identifier had succeeded,
\* on the same record, and got from every stage client what that run got
RerunSameOutputs(r) ==
    /\ rid[r] = rid[Other(r)]
    /\ Succeeded(Other(r))
    /\ loc[r].startTime > loc[Other(r)].startTime
    /\ pre[r].status = "analyzed"
    /\ loc[r].intelligenceResult = loc[Other(r)].intelligenceResult
    /\ loc[r].riskResult = loc[Other(r)].riskResult
    /\ loc[r].complianceResult = loc[Other(r)].complianceResult
    /\ loc[r].pricingResult = loc[Other(r)].pricingResult

MergedArrays == {"parties", "keyDates", "financialTerms", "clauses", "risks", "complianceIssues"}

\* C21: a run on an analyzed record whose stage outputs are those of the run
\* before it returns success and stores status analyzed with parties,
\* keyDates, financialTerms, clauses, risks and complianceIssues as the run
\* before left them.
C21_RerunIsIdempotent ==
    \A r \in Runs :
        (Done(r) /\ RerunSameOutputs(r)) =>
            /\ Succeeded(r)
            /\ Stored(r).status = "analyzed"
            /\ \A f \in MergedArrays : Stored(r)[f] = pre[r][f]

\* C21 witness: a rerun with the same outputs has returned on a record that
\* holds merged parties, financial terms, risks and compliance issues.
C21_Witness ==
    \E r \in Runs :
        /\ Done(r) /\ RerunSameOutputs(r)
        /\ Stored(r).parties = <<partyA>>
        /\ Stored(r).financialTerms = <<termA, termB>>
        /\ Stored(r).risks = <<riskA>>
        /\ Stored(r).complianceIssues = <<issueA>>

\* deleteContract has returned after its findById found the record
DeletedExisting == del.pc = "done" /\ del.id \in DOMAIN del.before

\* C22 (as claimed): a deleteContract whose storage operations resolved on an
\* existing record has removed the record, whether or not fs.unlink rejected,
\* and when fs.unlink rejected the returned value differs from the one
\* returned when it resolved; on an id with no record it returns the
\* not-found failure and leaves the collection and the files as they were.
C22_DeleteReportsFileFailure ==
    /\ (DeletedExisting /\ del.result.ok = TRUE) =>
          /\ del.id \notin DOMAIN store
          /\ del.fileError => del.result /= [ok |-> TRUE, error |-> U, data |-> [deleted |-> TRUE]]
    /\ (del.pc = "done" /\ del.id \notin DOMAIN del.before
          /\ del.result.error /= Str(ErrStorage)) =>
          /\ del.result = [ok |-> FALSE, error |-> Str(ErrNotFound)]
          /\ store = del.before

\* the stage clients in the order of the steps, with and without step 4
StageOrder ==
    { <<"intelligence", "risk", "compliance", "pricing", "similarity">>,
      <<"intelligence", "risk", "compliance", "similarity">> }

IsPrefix(s, t) == Len(s) <= Len(t) /\ SubSeq(t, 1, Len(s)) = s

\* the local of run r that receives what stage client c returns
Returned(r, c) ==
    CASE c = "intelligence" -> loc[r].intelligenceResult
      [] c = "risk" -> loc[r].riskResult
      [] c = "compliance" -> loc[r].complianceResult
      [] c = "pricing" -> loc[r].pricingResult
      [] c = "similarity" -> loc[r].similarityResult

\* the calls of run r that were issued and have not returned
InFlight(r) == {i \in 1..Len(calls[r]) : Returned(r, calls[r][i]) = U}

FallbackOf(c) ==
    CASE c = "risk" -> fallbackRiskAssessment
      [] c = "compliance" -> fallbackCompliance
      [] c = "pricing" -> fallbackPricingAnalysis

\* x is a degraded result of stage client c
Degraded(x, c) ==
    /\ x.ok = Bool(FALSE)
    /\ NonEmptyString(x.error)
    /\ x.fallback = FallbackOf(c)
    /\ x.fallback.confidence = Num(0)

HasSpan(text) ==
    \E i \in 1..Len(text) : \E j \in (i + 1)..Len(text) : Is(text[i], "{") /\ Is(text[j], "}")

\* the span, the span after the single-quote conversion, and the span after
\* the escaping of the quotes inside descriptions as well
Repairs(span) ==
    << span,
       fixQuotedFirstKey(fixQuotedValues(span)),
       fixDescriptionQuotes(fixQuotedFirstKey(fixQuotedValues(span))) >>

\* C25: _parseAIResponse has three outcomes.  A text without a span from an
\* opening to a closing brace fails with "No JSON found in response".  A text
\* whose span parses as it is, or after the first or after both repairs,
\* yields the record of the first of these that parses.  Any other text
\* fails with "Could not parse AI response as valid JSON" and the error of
\* the last JSON.parse.  A failure carries no record.
C25_TwoFailureOutcomes ==
    parser.stage = "done" =>
        LET span == jsonMatch(cleanText(parser.text))
            tries == Repairs(span)
            good == {i \in 1..Len(tries) : JSONparse(tries[i]).ok}
        IN  /\ IF ~HasSpan(parser.text)
               THEN parser.out = Unparseable(ErrParse)
               ELSE IF good = {}
               THEN /\ parser.out = Unparseable(ErrUnparseable)
                    /\ parser.cause = SyntaxError(tries[Len(tries)])
               ELSE LET first == CHOOSE i \in good : \A j \in good : i <= j
                    IN  parser.out = Data(validateAndFixParsedData(JSONparse(tries[first]).v))
            /\ parser.out.kind /= "data" => parser.out.data = U

\* C25 witness: a description holding a quoted word has failed with the
\* second outcome after both repairs.
C25_Witness ==
    /\ parser.stage = "done"
    /\ parser.text = DescriptionText
    /\ parser.out = Unparseable(ErrUnparseable)
    /\ parser.cause = SyntaxError(parser.jsonStr)

\* string s starts and ends with a matching bracket pair
Bracketed(s) ==
    /\ s /= <<>>
    /\ \/ Is(s[1], "{") /\ Is(s[Len(s)], "}")
       \/ Is(s[1], "[") /\ Is(s[Len(s)], "]")

RECURSIVE HasSerialized(_)
\* value v holds, at some depth, a string that is the text of an object or array
HasSerialized(v) ==
    CASE v.t = "chars" -> Bracketed(v.v) /\ JSONparse(v.v).ok
      [] v.t = "object" -> \E i \in 1..Len(v.v) : HasSerialized(v.v[i].v)
      [] v.t = "array" -> \E i \in 1..Len(v.v) : HasSerialized(v.v[i])
      [] OTHER -> FALSE

\* C26 (as claimed): the record of a successful parse holds at no depth a
\* string that is the text of an object or array: each such string was
\* replaced by the value it parses to.
C26_SerializedFieldsReparsed ==
    (parser.stage = "done" /\ parser.out.kind = "data") => ~HasSerialized(parser.out.data)

\* the step in which the save of _handleAnalysisError of run r resolves
FailureSaved(r) == pc[r] = "saveError" /\ pc'[r] = "done"

\* C27 (as claimed): every failed attempt raises the stored errorCount of its
\* record by exactly one, whether or not runs on the record overlap.
C27_EveryFailureCounts ==
    [][\A r \in Runs :
          FailureSaved(r) => store'[rid[r]].errorCount = store[rid[r]].errorCount + 1]_vars

\* C27 (amended): every failed attempt during which no other run on the same
\* record was under way raises the stored errorCount of its record by exactly one.
C27_FailureCountsUnlessOverlapped ==
    [][\A r \in Runs :
          (FailureSaved(r) /\ ~loc[r].overlapped) =>
              /\ store'[rid[r]].errorCount = store[rid[r]].errorCount + 1
              /\ store'[rid[r]].errorCount = pre[r].errorCount + 1]_vars

\* C27 witness: a second failed attempt, started after the first had
\* returned, has taken errorCount from 1 to 2.
C27_Witness ==
    \E r \in Runs :
        /\ Done(r) /\ result[r].ok = FALSE /\ ~loc[r].overlapped
        /\ pre[r].status = "failed" /\ pre[r].errorCount = 1
        /\ Stored(r).errorCount = 2

\* the document a returned run r leaves when no other run exists: the record
\* it found, changed by the statements of analyzeContract for the stage
\* results and the clock readings it got
Alone(r) ==
    LET x0 == Set(Loaded(pre[r]), "status", "processing")
        x1 == mergeIntelligence(x0, loc[r].intelligenceResult.data)
        x2 == mergeRisk(x1, loc[r].riskResult)
        x3 == mergeCompliance(x2, loc[r].complianceResult)
        x4 == IF loc[r].pricingResult = U THEN x3 ELSE mergePricing(x3, loc[r].pricingResult)
    IN  IF result[r].ok = TRUE
        THEN finalize(x4, loc[r], loc[r].similarityResult, Stored(r).aiAnalysisDate.v).d
        ELSE handleAnalysisError(x0, loc[r].error).d

\* C28: a step of a run on one record leaves the other record as it is
\* stored, and the stored record of a returned run is, in every field other
\* than similarContracts, the one the run leaves when it runs alone.
C28_DistinctRecordsIndependent ==
    /\ [][\A r \in Runs :
             (pc'[r] /= pc[r] /\ rid'[r] /= rid'[Other(r)]) =>
                 store'[rid'[Other(r)]] = store[rid'[Other(r)]]]_vars
    /\ [](\A r \in Runs :
             (Done(r) /\ rid[r] /= rid[Other(r)]) =>
                 \A f \in Fields \ {"similarContracts"} : Stored(r)[f] = Alone(r)[f])

\* C28 witness: two runs on distinct records, each started before the other
\* had written its processing status, have both succeeded with different
\* parties and different risk levels.
C28_Witness ==
    /\ Succeeded(1) /\ Succeeded(2)
    /\ rid[1] /= rid[2]
    /\ loc[1].startTime = loc[2].startTime
    /\ Stored(1).parties = <<partyA>> /\ Stored(2).parties = <<partyB>>
    /\ Stored(1).riskLevel /= Stored(2).riskLevel

\* run r has written status processing and awaits the first capability call
PersistedProcessing(r) == pc[r] = "intelligence" /\ Stored(r).status = "processing"

\* the stored record of run r is analyzed or failed
Concluded(r) == rid[r] \in DOMAIN store /\ Stored(r).status \in {"analyzed", "failed"}

\* analyzeContract of run r returned after its write of status processing
ReturnedAfterProcessing(r) == Done(r) /\ calls[r] /= <<>>

\* C29 (as claimed): when every awaited call settles, a run that has persisted
\* status processing leads to the record being stored analyzed or failed, and
\* no return of analyzeContract after that write leaves it in processing.
C29_ProcessingLeadsToConclusion ==
    /\ \A r \in SeqRuns : PersistedProcessing(r) ~> Concluded(r)
    /\ [](\A r \in SeqRuns : ReturnedAfterProcessing(r) => Concluded(r))

\* C29 (amended): when every awaited call settles, a run that has persisted
\* status processing leads to the record being stored analyzed or failed, or
\* to analyzeContract rejecting with the record still in processing, which
\* happens when the findById of the catch block or the save of
\* _handleAnalysisError is rejected; a call that returns leaves the record
\* analyzed or failed.
C29_ProcessingLeadsToConclusionOrRejection ==
    /\ \A r \in SeqRuns :
           PersistedProcessing(r) ~>
               (Concluded(r) \/ (Thrown(r) /\ calls[r] /= <<>>))
    /\ [](\A r \in SeqRuns : ReturnedAfterProcessing(r) => Concluded(r))
    /\ [](\A r \in SeqRuns :
             (Thrown(r) /\ calls[r] /= <<>>) =>
                 /\ Stored(r).status = "processing"
                 /\ loc[r].thrownAt \in AfterProcessing)

\* C29 witness: the intelligence stage of a run failed after the run had
\* persisted processing, and the run returned with the record stored failed.
C29_Witness ==
    \E r \in SeqRuns :
        /\ ReturnedAfterProcessing(r)
        /\ loc[r].thrownAt = "none"
        /\ loc[r].intelligenceResult /= U /\ ~Truthy(loc[r].intelligenceResult.ok)
        /\ Stored(r).status = "failed"
        /\ result[r].ok = FALSE

\* the fields a failed run leaves as they are stored
FrameOfFailure == Fields \ {"status", "lastError", "errorCount"}

\* analyzeContract of run r returned a failure for a record it had found
Failed(r) == Done(r) /\ result[r].ok = FALSE /\ rid[r] \in DOMAIN store /\ pre[r] /= NoDoc

\* C30: the save of a failed run writes no field other than status, lastError
\* and errorCount, and a run that returned a failure leaves every other field
\* stored as it was before the run, whatever it had merged in memory.
C30_FailureKeepsOtherFields ==
    /\ [][\A r \in Runs :
             FailureSaved(r) =>
                 \A f \in FrameOfFailure : store'[rid[r]][f] = store[rid[r]][f]]_vars
    /\ [](\A r \in Runs :
             Failed(r) => \A f \in FrameOfFailure : Stored(r)[f] = pre[r][f])

\* C30 witness: a run merged parties, a risk level and a compliance score in
\* memory, its final save was rejected by validation, and the record is
\* stored failed with none of them.
C30_Witness ==
    \E r \in Runs :
        /\ Failed(r) /\ loc[r].thrownAt = "saveFinal"
        /\ IntelOk(r) /\ IsArray(loc[r].intelligenceResult.data.parties)
        /\ Len(loc[r].intelligenceResult.data.parties.v) > 0
        /\ RiskOk(r) /\ ComplianceOk(r)
        /\ pre[r].parties = <<>> /\ Stored(r).parties = <<>>
        /\ Stored(r).riskLevel = pre[r].riskLevel
        /\ Stored(r).riskLevel /= loc[r].riskResult.data.riskLevel
        /\ Stored(r).complianceScore = pre[r].complianceScore
        /\ Stored(r).status = "failed"

====
